---- MODULE Spec2Model ----
(***************************************************************************)
(* Protocol Argus Cortex: the flow-tracking pipeline of pkg/argus (packet  *)
(* ingestion, analysis cycle, eviction sweep, shutdown) and the statistics *)
(* aggregators of internal/cortex and pkg/ml.                              *)
(*                                                                         *)
(* Time is counted in units of the idle timeout (5 minutes).  Flow objects *)
(* live on a heap and the flow table maps a flow ID to a heap reference,   *)
(* as the Go map of *Flow does: an analysis cycle or a dispatched          *)
(* goroutine keeps its reference after the sweep has deleted the entry.    *)
(*                                                                         *)
(* Lock sections that contain no blocking call are one step each           *)
(* (flow.mu, stats.mu, and flowsMu.Lock with the two inside it); the       *)
(* flowsMu read section of the analysis cycle spans several steps because  *)
(* it reads AnalysisPending without flow.mu.                               *)
(***************************************************************************)
EXTENDS Integers, Sequences, FiniteSets, Bags, TLC

\* ------------------------------------------------------------- bounds
MaxTime == 2
MaxObj == 2
MaxCaptures == 11
MaxInferences == 3
MaxAddrLen == 2
MaxFlowPackets == 3
MaxTrainings == 1
MaxIngests == 4
MaxExtracts == 2
MaxScores == 2
\* HTTP requests served by the API server.
MaxRequests == 4
\* Calls each activity makes while the locks are followed step by step, and
\* eviction sweeps among them.
MaxCalls == 2
MaxSweeps == 1
\* Capture ticks up to the dispatch of a flow recreated after its eviction.
MaxRecaptures == 20

\* -------------------------------------------------- program constants
IdleTimeout == 1
SecondsPerTick == 300
MinPackets == 10
FeatureSize == 128
InputSize == 128
Scale == 100
DetectionThreshold == 85
MLDetectionThreshold == 60

\* The packets simulatePacketCapture generates on every tick (the source
\* lists three; the flow ID stands for generateFlowID of the 4-tuple).
CapturePackets == << [id |-> "f1", size |-> 1200] >>
FlowIDs == { CapturePackets[i].id : i \in 1..Len(CapturePackets) }

\* The analyzeFlows goroutines: Start spawns one per call.  "an2" is the one
\* a second Start call spawns (Start does not refuse to run twice).
Analyzers == {"an1", "an2"}
\* Confidences, in 1/Scale: what simulateInference yields for captured flows
\* (0.4 for regular timing or nothing, plus up to 0.099 of clock noise).
PipelineConfidences == {5, 45}
\* Confidences a prediction may return, in 1/Scale.
Confidences == {30, 90}

NoFlow == 0

VARIABLES
    now,        \* the wall clock, time.Now()
    heap,       \* the Flow objects ever allocated, by reference 1..Len(heap)
    flows,      \* Engine.flows: flow ID -> reference, NoFlow when absent
    stats,      \* Engine.stats (CaptureStats)
    started,    \* Start was called
    ctxDone,    \* the context passed to Start was cancelled
    closed,     \* Close was called: e.ctx is cancelled
    ingest,     \* the processPackets goroutine
    analyzer,   \* the analyzeFlows goroutines
    cleanup,    \* the cleanupFlows goroutine
    tasks,      \* the dispatched analysis goroutines (a bag)
    captures,   \* runs of simulatePacketCapture so far
    st,         \* the stats of cortex.Engine, MLEngine and MLCortexEngine
    mu,         \* the sync.RWMutex locks, by name
    thr,        \* the goroutines calling into the engines
    confSum,    \* per engine, the sum of the confidences recorded so far
    ml,         \* the MLEngine: its configuration and its models
    call        \* the call under evaluation: its arguments and what it returned

vars == << now, heap, flows, stats, started, ctxDone, closed, ingest,
           analyzer, cleanup, tasks, captures, st, mu, thr, confSum, ml, call >>

\* ------------------------------------------------------ rationals
RECURSIVE GCD(_, _)
GCD(a, b) == IF b = 0 THEN a ELSE GCD(b, a % b)

\* The float64 NaN: 0/0.  Sums and products with it are NaN again and every
\* comparison with it is false, as the arithmetic below gives by itself.
NaN == [num |-> 0, den |-> 0]
\* NaN as a confidence: outside 0..Scale, so below every threshold.
NaNConf == 0 - 1

\* A rational as a reduced fraction.
Rat(n, d) ==
    IF d = 0 THEN NaN
    ELSE LET g == GCD(n, d) IN [num |-> n \div g, den |-> d \div g]
RatZero == [num |-> 0, den |-> 1]
RatSub(a, b) == Rat(a.num * b.den - b.num * a.den, a.den * b.den)
RatMul(a, b) == Rat(a.num * b.num, a.den * b.den)
RatLess(a, b) == a.num * b.den < b.num * a.den
RatAdd(a, b) == Rat(a.num * b.den + b.num * a.den, a.den * b.den)
RatAbs(a) == IF a.num < 0 THEN [num |-> 0 - a.num, den |-> a.den] ELSE a

RECURSIVE SumSeq(_)
SumSeq(xs) == IF xs = << >> THEN 0 ELSE Head(xs) + SumSeq(Tail(xs))

\* Slot i (counted from 0, as the Go index) of a feature vector.
Slot(v, i) == v[i + 1]

\* ----------------------------------------------- statistics aggregators
\* cortex.Engine, ml.MLEngine and cortex.MLCortexEngine each own a stats
\* record behind its own stats.mu; the three updateStats have the same
\* text (MLEngine calls its total TotalPredictions).
Engines == {"cortex", "ml", "mlc"}
Callers == {"c1", "c2"}
None == "none"

\* Statistics{}: the zero value.
NewStatistics ==
    [ TotalInferences |-> 0, BotDetections |-> 0, HumanDetections |-> 0,
      AverageConfidence |-> RatZero ]

\* e.stats.TotalInferences++
IncTotal(s) == [s EXCEPT !.TotalInferences = @ + 1]

\* Mutant of IncVerdict: the else branch is lost.
IncVerdictBotOnly(s, isBot) ==
    IF isBot THEN [s EXCEPT !.BotDetections = @ + 1] ELSE s

\* if result.IsBot { BotDetections++ } else { HumanDetections++ }
IncVerdict(s, isBot) ==
    IF isBot THEN [s EXCEPT !.BotDetections = @ + 1]
             ELSE [s EXCEPT !.HumanDetections = @ + 1]

\* Mutant of RunningAverage: the old average is weighted by total, not total-1.
RunningAverageUnshifted(avg, total, conf) ==
    Rat(avg.num * total * Scale + conf * avg.den, avg.den * Scale * total)

\* (AverageConfidence*(total-1) + result.Confidence) / total, with the
\* confidence in 1/Scale and the quotient exact (no float64 rounding).
RunningAverage(avg, total, conf) ==
    IF conf = NaNConf THEN NaN
    ELSE Rat(avg.num * (total - 1) * Scale + conf * avg.den, avg.den * Scale * total)

\* total := float64(TotalInferences); AverageConfidence = ...
SetAverage(s, conf) ==
    [s EXCEPT !.AverageConfidence =
                  RunningAverage(@, s.TotalInferences, conf)]

\* updateStats as a whole, the section under stats.mu.Lock.
updateStats(s, isBot, conf) == SetAverage(IncVerdict(IncTotal(s), isBot), conf)

\* cortex.Engine.Analyze: isBot := confidence >= e.config.DetectionThreshold
cortexIsBotAt(conf, threshold) == conf >= threshold
\* ... with the default threshold of config.Load.
cortexIsBot(conf) == cortexIsBotAt(conf, DetectionThreshold)

\* MLEngine.Predict: isBot := confidence > e.config.DetectionThreshold
mlIsBotAt(conf, threshold) == conf > threshold
\* ... with the default threshold of DefaultMLConfig.
mlIsBot(conf) == mlIsBotAt(conf, MLDetectionThreshold)

\* Mutant of cortexAnalyzeFails: every vector is rejected.
cortexAnalyzeFailsAlways(feat) == Len(feat) >= 0

\* Engine.Analyze rejects a vector whose length is not the model's InputSize.
cortexAnalyzeFails(feat) == Len(feat) # InputSize

\* sync.RWMutex: Lock waits for the writer and for every reader to leave.
CanLock(e) == mu[e].writer = None /\ mu[e].readers = {}

\* Mutant of CanRLock: the reader does not wait for the writer.
CanRLockAlways(e) == TRUE

\* sync.RWMutex: RLock waits for the writer to leave.
CanRLock(e) == mu[e].writer = None

\* stats := *e.stats; return &stats: the caller gets a copy of its own.
CopyStats(s) == [shared |-> FALSE, val |-> s]

\* What a caller reads through the *Statistics it was handed.
View(e, snap) == IF snap.shared THEN st[e] ELSE snap.val

NoSnap == [shared |-> FALSE, val |-> NewStatistics]
IdleThread ==
    [op |-> "idle", pc |-> "idle", conf |-> 0, isBot |-> FALSE,
     on |-> None, snap |-> NoSnap, mlStats |-> NewStatistics]

\* ------------------------------------------------------- the ML engine
\* config.DefaultMLConfig, the fields the engine reads.
DefaultMLConfig ==
    [ ModelType |-> "ensemble", DetectionThreshold |-> MLDetectionThreshold,
      FeatureSize |-> FeatureSize, GenerateFakeData |-> TRUE,
      BatchSize |-> 32, TrainingEpochs |-> 100, LearningRate |-> Rat(1, 1000),
      FakeDataSize |-> 1000, MaxConcurrency |-> 4 ]

\* mat.NewVecDense(n, nil): n zeros.
ZeroVec(n) == [i \in 1..n |-> RatZero]

\* NewMLEngine up to (and without) TrainOnFakeData: initializeModels builds
\* the models of the configured type, none of them trained.  `owner` is the
\* config field of the MLCortexEngine that wraps the engine:
\* NewMLCortexEngine hands the same values to both.
NewMLEngine(cfg) ==
    [ config |-> cfg, nnTrained |-> FALSE, svmTrained |-> FALSE,
      weights |-> ZeroVec(cfg.FeatureSize), pc |-> "idle",
      data |-> << >>, runs |-> 0, TrainingTime |-> 0,
      err |-> FALSE, was |-> [nn |-> FALSE, svm |-> FALSE],
      owner |-> cfg ]

\* What a prediction path hands back: a confidence in 1/Scale, an error, or
\* a panic that unwinds the calling goroutine.
Ok(conf) == [status |-> "ok", conf |-> conf]
Err == [status |-> "error", conf |-> 0]
Panic == [status |-> "panic", conf |-> 0]

\* The slots (counted from 0) that raise the heuristic score by 0.1 each:
\* i < 10 with a feature above 0.7, 10 <= i < 20 with one below 0.3,
\* 20 <= i < 30 with one within 0.1 of 0.5.
ScoringSlots(features) ==
    { i \in 0..(Len(features) - 1) :
        \/ i < 10 /\ RatLess(Rat(7, 10), Slot(features, i))
        \/ i >= 10 /\ i < 20 /\ RatLess(Slot(features, i), Rat(3, 10))
        \/ i >= 20 /\ i < 30 /\
             RatLess(RatAbs(RatSub(Slot(features, i), Rat(1, 2))), Rat(1, 10)) }

\* MLEngine.simulatePrediction: the score, then math.Min(score, 1.0).
simulatePrediction(features) ==
    LET score == (Cardinality(ScoringSlots(features)) * Scale) \div 10
    IN IF score < Scale THEN score ELSE Scale

\* predictNeuralNetwork: the heuristic while the network is missing or
\* untrained; else the forward pass of the graph, which is library code:
\* `out` is what it gives, an error or the sigmoid output.
predictNeuralNetwork(e, features, out) ==
    IF ~e.nnTrained THEN Ok(simulatePrediction(features)) ELSE out

\* mat.Dot over the slots lo..hi, summed by halves.
RECURSIVE Dot(_, _, _, _)
Dot(w, x, lo, hi) ==
    IF lo > hi THEN RatZero
    ELSE IF lo = hi THEN RatMul(w[lo], x[lo])
    ELSE LET mid == (lo + hi) \div 2
         IN RatAdd(Dot(w, x, lo, mid), Dot(w, x, mid + 1, hi))

\* 1.0 / (1.0 + math.Exp(-p)) in float64: NaN for NaN, exactly 1 from about p = 37 on,
\* exactly 0 once Exp overflows (p below -709), 0.5 at 0, and strictly
\* between otherwise, where one value stands for each side of 0.5.
Sigmoid(p) ==
    IF p = NaN THEN NaNConf
    ELSE IF ~RatLess(p, Rat(37, 1)) THEN Scale
    ELSE IF RatLess(RatZero, p) THEN 80
    ELSE IF p = RatZero THEN 50
    ELSE IF RatLess(Rat(0 - 709, 1), p) THEN 20
    ELSE 0

\* predictSVM: the heuristic while the classifier is missing or untrained;
\* else sigmoid(w.x + b) with b = 0.  mat.NewVecDense panics on an empty
\* slice and mat.Dot panics when the two lengths differ.
predictSVM(e, features) ==
    IF ~e.svmTrained THEN Ok(simulatePrediction(features))
    ELSE IF Len(features) = 0 \/ Len(features) # Len(e.weights) THEN Panic
    ELSE Ok(Sigmoid(Dot(e.weights, features, 1, Len(e.weights))))

\* Mutant of predictEnsemble: the predictions are summed, not averaged.
predictEnsembleSum(e, features, out) ==
    LET nn == predictNeuralNetwork(e, features, out)
        svm == predictSVM(e, features)
        preds == (IF nn.status = "ok" THEN << nn.conf >> ELSE << >>)
                    \o (IF svm.status = "ok" THEN << svm.conf >> ELSE << >>)
    IN IF svm.status = "panic" THEN Panic
       ELSE IF preds = << >> THEN Ok(simulatePrediction(features))
       ELSE IF \E k \in 1..Len(preds) : preds[k] = NaNConf THEN Ok(NaNConf)
       ELSE Ok(SumSeq(preds))

\* predictEnsemble: every sub-prediction that returned no error is
\* collected; the heuristic if there is none, else their mean.
predictEnsemble(e, features, out) ==
    LET nn == predictNeuralNetwork(e, features, out)
        svm == predictSVM(e, features)
        preds == (IF nn.status = "ok" THEN << nn.conf >> ELSE << >>)
                    \o (IF svm.status = "ok" THEN << svm.conf >> ELSE << >>)
    IN IF svm.status = "panic" THEN Panic
       ELSE IF preds = << >> THEN Ok(simulatePrediction(features))
       ELSE IF \E k \in 1..Len(preds) : preds[k] = NaNConf THEN Ok(NaNConf)
       ELSE Ok(SumSeq(preds) \div Len(preds))

\* The switch of MLEngine.Predict on e.config.ModelType.
PredictConfidence(e, features, out) ==
    CASE e.config.ModelType = "neural_network" ->
            predictNeuralNetwork(e, features, out)
      [] e.config.ModelType = "svm" -> predictSVM(e, features)
      [] e.config.ModelType = "ensemble" -> predictEnsemble(e, features, out)
      [] OTHER -> Err

\* cortex.Engine.simulateInference: 0.3 for a mean size above 1400, 0.4 for
\* a timing variance below 0.1, 0.2 for slot 20 below 0.5, plus the clock
\* noise (UnixNano % 100) / 1000, capped at 1.0.
simulateInference(features, noise) ==
    LET score ==
          (IF Len(features) >= 10 /\ RatLess(Rat(1400, 1), Slot(features, 0))
             THEN 30 ELSE 0)
          + (IF Len(features) >= 20 /\ RatLess(Slot(features, 10), Rat(1, 10))
               THEN 40 ELSE 0)
          + (IF Len(features) >= 30 /\ RatLess(Slot(features, 20), Rat(1, 2))
               THEN 20 ELSE 0)
          + noise
    IN IF score > Scale THEN Scale ELSE score

\* No call is under evaluation.
NoCall == [fn |-> "none"]

\* ---------------------------------------------------------- argus flows
\* Mutant of NewFlow: the Flow evicted under this ID, if any, is revived.
RevivedFlow(id, t) ==
    IF \E r \in 1..Len(heap) : heap[r].ID = id
    THEN [heap[CHOOSE r \in 1..Len(heap) : heap[r].ID = id]
             EXCEPT !.StartTime = t]
    ELSE [ ID |-> id, Packets |-> << >>, StartTime |-> t, LastSeen |-> 0,
           AnalysisPending |-> FALSE ]

\* &Flow{ID: flowID, Packets: make([]*Packet, 0), StartTime: time.Now()}
NewFlow(id, t) ==
    [ ID |-> id, Packets |-> << >>, StartTime |-> t, LastSeen |-> 0,
      AnalysisPending |-> FALSE ]

\* Mutant of AppendPacket: the packet is not kept, only its time.
AppendPacketDropped(f, pkt) == [f EXCEPT !.LastSeen = pkt.Timestamp]

\* Mutant of AppendPacket: the packet is put in front of the stored ones.
AppendPacketInFront(f, pkt) ==
    [f EXCEPT !.Packets = << pkt >> \o @, !.LastSeen = pkt.Timestamp]

\* flow.Packets = append(flow.Packets, packet); flow.LastSeen = packet.Timestamp
AppendPacket(f, pkt) ==
    [f EXCEPT !.Packets = Append(@, pkt), !.LastSeen = pkt.Timestamp]

\* Mutant of Eligible: the packet count is not tested.
EligibleAnySize(f) == ~f.AnalysisPending

\* The selection test of performFlowAnalysis.
Eligible(f) == ~f.AnalysisPending /\ Len(f.Packets) >= MinPackets

\* Mutant of Stale: a flow idle for exactly the timeout is removed too.
StaleInclusive(f, cutoff) == f.LastSeen <= cutoff

\* flow.LastSeen.Before(cutoff)
Stale(f, cutoff) == f.LastSeen < cutoff

\* time.Duration.Seconds() of a span counted in clock units.
Seconds(d) == d * SecondsPerTick

RECURSIVE SumSizes(_)
SumSizes(pkts) ==
    IF pkts = << >> THEN 0 ELSE Head(pkts).Size + SumSizes(Tail(pkts))

\* The noise loop's pattern for slot i (counted from 0): float64(i%10) / 10.0
FillerTable == [k \in 0..9 |-> Rat(k, 10)]
Filler(i) == FillerTable[i % 10]

\* The variance of the inter-packet intervals of a flow of two packets or
\* more: (sumSq / len) - (mean * mean), the intervals in seconds.
IntervalVariance(f) ==
    LET m == Len(f.Packets) - 1
        iv == [i \in 1..m |->
                  Seconds(f.Packets[i + 1].Timestamp - f.Packets[i].Timestamp)]
        mean == Rat(SumSeq(iv), m)
    IN RatSub(Rat(SumSeq([i \in 1..m |-> iv[i] * iv[i]]), m),
              RatMul(mean, mean))

\* What extractFeatures assigns to slot i (counted from 0) of a flow that
\* has packets, before its noise loop: slot 0 the mean size, slot 10 the
\* interval variance (two packets or more), slot 20 the packet count and
\* slot 21 LastSeen - StartTime in seconds; every other slot stays at the 0
\* of make([]float64, 128).
Assigned(f, i) ==
    CASE i = 0 -> Rat(SumSizes(f.Packets), Len(f.Packets))
      [] i = 10 /\ Len(f.Packets) > 1 -> IntervalVariance(f)
      [] i = 20 -> Rat(Len(f.Packets), 1)
      [] i = 21 -> Rat(Seconds(f.LastSeen - f.StartTime), 1)
      [] OTHER -> RatZero

\* Mutant of extractFeatures: the duration runs up to the time of the call.
extractFeaturesToNow(f) ==
    [i \in 1..FeatureSize |->
        LET a == IF i = 22 THEN Rat(Seconds(now - f.StartTime), 1)
                 ELSE Assigned(f, i - 1)
        IN IF a = RatZero THEN Filler(i - 1) ELSE a]

\* extractFeatures: the zero vector for a flow without packets; else the
\* assigned slots, and the noise loop writes the filler into every slot that
\* holds 0.  Exact rationals stand for float64.
extractFeatures(f) ==
    IF Len(f.Packets) = 0
    THEN [i \in 1..FeatureSize |-> RatZero]
    ELSE [i \in 1..FeatureSize |->
            LET a == Assigned(f, i - 1)
            IN IF a = RatZero THEN Filler(i - 1) ELSE a]

\* cutoff := time.Now().Add(-5 * time.Minute)
Cutoff(t) == t - IdleTimeout

Present == { id \in FlowIDs : flows[id] # NoFlow }
Flow(id) == heap[flows[id]]

IdleAnalyzer == [pc |-> "select", scan |-> {}, batch |-> << >>]

EngineInit ==
    /\ now = 0
    /\ heap = << >>
    /\ flows = [id \in FlowIDs |-> NoFlow]
    /\ stats = [TotalPackets |-> 0, ActiveFlows |-> 0, AnalyzedFlows |-> 0,
                LastPacket |-> 0]
    /\ started = FALSE
    /\ ctxDone = FALSE
    /\ closed = FALSE
    /\ ingest = [pc |-> "off", i |-> 0, ts |-> 0]
    /\ analyzer = [a \in Analyzers |-> [IdleAnalyzer EXCEPT !.pc = "off"]]
    /\ cleanup = [pc |-> "off", at |-> 0, cutoff |-> 0]
    /\ tasks = EmptyBag
    /\ captures = 0
    /\ st = [e \in Engines |-> NewStatistics]
    /\ mu = [e \in Engines |-> [writer |-> None, readers |-> {}]]
    /\ thr = [t \in Callers |-> IdleThread]
    /\ confSum = [e \in Engines |-> 0]

\* The state after construction: the engines as NewEngine and NewMLEngine
\* (before any training) leave them, and no call under evaluation.
Init ==
    /\ EngineInit
    /\ ml = NewMLEngine(DefaultMLConfig)
    /\ call = NoCall

\* ------------------------------------------------------------ the clock
Tick ==
    /\ now < MaxTime
    /\ now' = now + 1
    /\ UNCHANGED << heap, flows, stats, started, ctxDone, closed, ingest,
                    analyzer, cleanup, tasks, captures,
                    st, mu, thr, confSum, ml, call >>

\* ------------------------------------------------------ Start and Close
\* Engine.Start: the three goroutines start on the caller's ctx.
Start ==
    /\ ~started
    /\ started' = TRUE
    /\ ingest' = [ingest EXCEPT !.pc = "select"]
    /\ analyzer' = [analyzer EXCEPT !["an1"] = IdleAnalyzer]
    /\ cleanup' = [cleanup EXCEPT !.pc = "select"]
    /\ UNCHANGED << now, heap, flows, stats, ctxDone, closed, tasks,
                    captures,
                    st, mu, thr, confSum, ml, call >>

\* A second Engine.Start on the same engine: a second analyzeFlows goroutine
\* (the second processPackets and cleanupFlows goroutines are left unscheduled).
StartAgain ==
    /\ started /\ ~ctxDone
    /\ analyzer["an2"].pc = "off"
    /\ analyzer' = [analyzer EXCEPT !["an2"] = IdleAnalyzer]
    /\ UNCHANGED << now, heap, flows, stats, started, ctxDone, closed, ingest,
                    cleanup, tasks, captures,
                    st, mu, thr, confSum, ml, call >>

\* The caller cancels the context it passed to Start.
CancelCtx ==
    /\ started /\ ~ctxDone
    /\ ctxDone' = TRUE
    /\ UNCHANGED << now, heap, flows, stats, started, closed, ingest,
                    analyzer, cleanup, tasks, captures,
                    st, mu, thr, confSum, ml, call >>

\* Engine.Close: e.cancel() cancels e.ctx, the context made by NewEngine.
Close ==
    /\ ~closed
    /\ closed' = TRUE
    /\ UNCHANGED << now, heap, flows, stats, started, ctxDone, ingest,
                    analyzer, cleanup, tasks, captures,
                    st, mu, thr, confSum, ml, call >>

\* ------------------------------------------------------------ ingestion
\* Mutant of FlowsMuFree: the cycle keeps flowsMu.RLock until the analyses it
\* started have returned.
FlowsMuFreeOfAnalyses ==
    /\ \A a \in Analyzers : analyzer[a].pc # "scan"
    /\ \A t \in BagToSet(tasks) : t.pc # "analyze"

\* No analysis cycle holds flowsMu.RLock: flowsMu.Lock can be taken.
FlowsMuFree == \A a \in Analyzers : analyzer[a].pc # "scan"

\* processPackets: case <-ctx.Done(): return
IngestExit ==
    /\ ingest.pc = "select" /\ ctxDone
    /\ ingest' = [ingest EXCEPT !.pc = "exited"]
    /\ UNCHANGED << now, heap, flows, stats, started, ctxDone, closed,
                    analyzer, cleanup, tasks, captures,
                    st, mu, thr, confSum, ml, call >>

\* processPackets: case <-ticker.C: simulatePacketCapture() begins.  The
\* ticker runs until the goroutine returns, so a tick can be ready whenever
\* the goroutine is at the select.
IngestTickUpTo(n) ==
    /\ ingest.pc = "select"
    /\ captures < n
    /\ Len(heap) + Cardinality(FlowIDs \ Present) <= MaxObj
    /\ captures' = captures + 1
    /\ ingest' = [pc |-> "packet", i |-> 1, ts |-> 0]
    /\ UNCHANGED << now, heap, flows, stats, started, ctxDone, closed,
                    analyzer, cleanup, tasks, st, mu, thr,
                    confSum, ml, call >>

IngestTick == IngestTickUpTo(MaxCaptures)

\* simulatePacketCapture: packet := &Packet{Timestamp: time.Now(), ...}
MakePacket ==
    /\ ingest.pc = "packet"
    /\ ingest' = [ingest EXCEPT !.pc = "add", !.ts = now]
    /\ UNCHANGED << now, heap, flows, stats, started, ctxDone, closed,
                    analyzer, cleanup, tasks, captures,
                    st, mu, thr, confSum, ml, call >>

\* addPacketToFlow(flowID, packet), the whole call under flowsMu.Lock.
AddPacketToFlow ==
    /\ ingest.pc = "add"
    /\ FlowsMuFree
    /\ flows[CapturePackets[ingest.i].id] # NoFlow \/ Len(heap) < MaxObj
    /\ LET id == CapturePackets[ingest.i].id
           pkt == [Timestamp |-> ingest.ts, Size |-> CapturePackets[ingest.i].size]
           exists == flows[id] # NoFlow
           ref == IF exists THEN flows[id] ELSE Len(heap) + 1
           heap1 == IF exists THEN heap ELSE Append(heap, NewFlow(id, now))
       IN /\ heap' = [heap1 EXCEPT ![ref] = AppendPacket(@, pkt)]
          /\ flows' = [flows EXCEPT ![id] = ref]
          /\ stats' = [stats EXCEPT !.ActiveFlows =
                           Cardinality({x \in FlowIDs : flows'[x] # NoFlow})]
    /\ ingest' = IF ingest.i < Len(CapturePackets)
                 THEN [ingest EXCEPT !.pc = "packet", !.i = @ + 1]
                 ELSE [ingest EXCEPT !.pc = "count"]
    /\ UNCHANGED << now, started, ctxDone, closed, analyzer, cleanup, tasks,
                    captures,
                    st, mu, thr, confSum, ml, call >>

\* simulatePacketCapture: TotalPackets += len(packets); LastPacket = time.Now()
CountPackets ==
    /\ ingest.pc = "count"
    /\ stats' = [stats EXCEPT !.TotalPackets = @ + Len(CapturePackets),
                              !.LastPacket = now]
    /\ ingest' = [pc |-> "select", i |-> 0, ts |-> 0]
    /\ UNCHANGED << now, heap, flows, started, ctxDone, closed, analyzer,
                    cleanup, tasks, captures,
                    st, mu, thr, confSum, ml, call >>

\* ------------------------------------------------------- analysis cycle
\* analyzeFlows: case <-ctx.Done(): return
AnalyzeExit(a) ==
    /\ analyzer[a].pc = "select" /\ ctxDone
    /\ analyzer' = [analyzer EXCEPT ![a].pc = "exited"]
    /\ UNCHANGED << now, heap, flows, stats, started, ctxDone, closed,
                    ingest, cleanup, tasks, captures,
                    st, mu, thr, confSum, ml, call >>

\* analyzeFlows: case <-ticker.C: performFlowAnalysis() takes flowsMu.RLock
\* and starts ranging over the map (in any order).
BeginCycle(a) ==
    /\ analyzer[a].pc = "select"
    /\ Present # {}
    /\ analyzer' = [analyzer EXCEPT ![a] =
                        [pc |-> "scan", scan |-> Present, batch |-> << >>]]
    /\ UNCHANGED << now, heap, flows, stats, started, ctxDone, closed,
                    ingest, cleanup, tasks, captures,
                    st, mu, thr, confSum, ml, call >>

\* One iteration of the selection loop; after the last one flowsMu.RUnlock.
ScanOne(a) ==
    /\ analyzer[a].pc = "scan"
    /\ \E id \in analyzer[a].scan :
         LET batch1 == IF Eligible(Flow(id))
                       THEN Append(analyzer[a].batch, flows[id])
                       ELSE analyzer[a].batch
             left == analyzer[a].scan \ {id}
         IN analyzer' = [analyzer EXCEPT ![a] =
              [pc |-> IF left # {} THEN "scan"
                      ELSE IF batch1 = << >> THEN "select" ELSE "mark",
               scan |-> left, batch |-> batch1]]
    /\ UNCHANGED << now, heap, flows, stats, started, ctxDone, closed,
                    ingest, cleanup, tasks, captures,
                    st, mu, thr, confSum, ml, call >>

\* flow.mu.Lock(); flow.AnalysisPending = true; flow.mu.Unlock()
SetPending(f) == [f EXCEPT !.AnalysisPending = TRUE]

Mark(a) ==
    /\ analyzer[a].pc = "mark"
    /\ heap' = [heap EXCEPT ![Head(analyzer[a].batch)] = SetPending(@)]
    /\ analyzer' = [analyzer EXCEPT ![a].pc = "extract"]
    /\ UNCHANGED << now, flows, stats, started, ctxDone, closed, ingest,
                    cleanup, tasks, captures,
                    st, mu, thr, confSum, ml, call >>

\* The goroutine started by `go func(f *Flow, feat []float64)`.
NewTask(ref, feat) ==
    [ref |-> ref, feat |-> feat, pc |-> "analyze", preClose |-> ~closed]

\* features := e.extractFeatures(flow); go func(...){...}(flow, features)
Dispatch(a) ==
    /\ analyzer[a].pc = "extract"
    /\ LET ref == Head(analyzer[a].batch)
           rest == Tail(analyzer[a].batch)
       IN /\ tasks' = tasks (+) SetToBag({NewTask(ref, extractFeatures(heap[ref]))})
          /\ analyzer' = [analyzer EXCEPT ![a] =
                [pc |-> IF rest = << >> THEN "select" ELSE "mark",
                 scan |-> {}, batch |-> rest]]
    /\ UNCHANGED << now, heap, flows, stats, started, ctxDone, closed,
                    ingest, cleanup, captures,
                    st, mu, thr, confSum, ml, call >>

\* The goroutine's e.cortex.Analyze(e.ctx, feat, f.ID): Analyze never reads
\* its context.  On an error the goroutine logs and returns.
TaskAnalyze(t) ==
    /\ t \in BagToSet(tasks)
    /\ t.pc = "analyze"
    /\ IF cortexAnalyzeFails(t.feat)
       THEN /\ tasks' = tasks (-) SetToBag({t})
            /\ UNCHANGED << st, confSum >>
       ELSE /\ \E conf \in PipelineConfidences :
                 /\ st' = [st EXCEPT !["cortex"] =
                              updateStats(@, cortexIsBot(conf), conf)]
                 /\ confSum' = [confSum EXCEPT !["cortex"] = @ + conf]
            /\ tasks' = (tasks (-) SetToBag({t}))
                           (+) SetToBag({[t EXCEPT !.pc = "count"]})
    /\ UNCHANGED << now, heap, flows, stats, started, ctxDone, closed,
                    ingest, analyzer, cleanup, captures, mu, thr, ml, call >>

\* The goroutine's e.stats.AnalyzedFlows++ under stats.mu, then it ends.
TaskCount(t) ==
    /\ t \in BagToSet(tasks)
    /\ t.pc = "count"
    /\ stats' = [stats EXCEPT !.AnalyzedFlows = @ + 1]
    /\ tasks' = tasks (-) SetToBag({t})
    /\ UNCHANGED << now, heap, flows, started, ctxDone, closed, ingest,
                    analyzer, cleanup, captures,
                    st, mu, thr, confSum, ml, call >>

\* ------------------------------------------------------- eviction sweep
\* cleanupFlows: case <-ctx.Done(): return
CleanupExit ==
    /\ cleanup.pc = "select" /\ ctxDone
    /\ cleanup' = [cleanup EXCEPT !.pc = "exited"]
    /\ UNCHANGED << now, heap, flows, stats, started, ctxDone, closed,
                    ingest, analyzer, tasks, captures,
                    st, mu, thr, confSum, ml, call >>

\* cleanupFlows: case <-ticker.C: removeOldFlows() reads the clock.
CleanupTick ==
    /\ cleanup.pc = "select"
    /\ cleanup' = [pc |-> "sweep", at |-> now, cutoff |-> Cutoff(now)]
    /\ UNCHANGED << now, heap, flows, stats, started, ctxDone, closed,
                    ingest, analyzer, tasks, captures,
                    st, mu, thr, confSum, ml, call >>

\* removeOldFlows under flowsMu.Lock: the deletions and the ActiveFlows update.
RemoveOldFlows ==
    /\ cleanup.pc = "sweep"
    /\ FlowsMuFree
    /\ flows' = [id \in FlowIDs |->
                    IF flows[id] # NoFlow /\ Stale(Flow(id), cleanup.cutoff)
                    THEN NoFlow ELSE flows[id]]
    /\ stats' = [stats EXCEPT !.ActiveFlows =
                     Cardinality({x \in FlowIDs : flows'[x] # NoFlow})]
    /\ cleanup' = [pc |-> "select", at |-> 0, cutoff |-> 0]
    /\ UNCHANGED << now, heap, started, ctxDone, closed, ingest, analyzer,
                    tasks, captures,
                    st, mu, thr, confSum, ml, call >>

\* ----------------------------------------------------- the specification
\* The running pipeline: the clock, Start and the three activities.
RunNext ==
    \/ Tick
    \/ Start
    \/ IngestTick
    \/ MakePacket
    \/ AddPacketToFlow
    \/ CountPackets
    \/ \E a \in Analyzers : BeginCycle(a)
    \/ \E a \in Analyzers : ScanOne(a)
    \/ \E a \in Analyzers : Mark(a)
    \/ \E a \in Analyzers : Dispatch(a)
    \/ \E t \in BagToSet(tasks) : TaskAnalyze(t)
    \/ \E t \in BagToSet(tasks) : TaskCount(t)
    \/ CleanupTick
    \/ RemoveOldFlows

\* Cancellation and shutdown.
StopNext ==
    \/ CancelCtx
    \/ Close
    \/ IngestExit
    \/ \E a \in Analyzers : AnalyzeExit(a)
    \/ CleanupExit

Next == RunNext \/ StopNext

\* The engine started once.
Spec == Init /\ [][Next]_vars

\* The engine with Start called twice, while it runs.
ConcurrentNext == RunNext \/ StartAgain
ConcurrentSpec == Init /\ [][ConcurrentNext]_vars

\* ------------------------------------------- calls into the aggregators
argusVars == << now, heap, flows, stats, started, ctxDone, closed, ingest,
                analyzer, cleanup, tasks, captures >>

\* A goroutine enters a prediction: the confidence is the model's output.
BeginCall(t, op, e, conf, isBot) ==
    thr' = [thr EXCEPT ![t] =
              [IdleThread EXCEPT !.op = op, !.pc = "total", !.on = e,
                                 !.conf = conf, !.isBot = isBot]]

\* cortex.Engine.Analyze up to its call of updateStats.
CortexAnalyze(t) ==
    /\ thr[t].op = "idle"
    /\ st["cortex"].TotalInferences < MaxInferences
    /\ \E conf \in Confidences :
          BeginCall(t, "cortex.Analyze", "cortex", conf, cortexIsBot(conf))
    /\ UNCHANGED << argusVars, st, mu, confSum, ml, call >>

\* MLEngine.Predict up to its call of updateStats.
Predict(t) ==
    /\ thr[t].op = "idle"
    /\ st["ml"].TotalInferences < MaxInferences
    /\ \E conf \in Confidences :
          BeginCall(t, "ml.Predict", "ml", conf, mlIsBot(conf))
    /\ UNCHANGED << argusVars, st, mu, confSum, ml, call >>

\* MLCortexEngine.Analyze up to updateStats inside e.mlEngine.Predict.
MLCortexAnalyze(t) ==
    /\ thr[t].op = "idle"
    /\ st["ml"].TotalInferences < MaxInferences
    /\ \E conf \in Confidences :
          BeginCall(t, "mlc.Analyze", "ml", conf, mlIsBot(conf))
    /\ UNCHANGED << argusVars, st, mu, confSum, ml, call >>

\* Where a goroutine goes when updateStats on engine e returns.
AfterUpdate(t, e) ==
    IF thr[t].op = "mlc.Analyze" /\ e = "ml"
    THEN [thr[t] EXCEPT !.pc = "total", !.on = "mlc"]
    ELSE IdleThread

\* One statement group of updateStats on engine e: Lock and the total,
\* the verdict counter, the average and the deferred Unlock.
UpdateStatsStep(t, e) ==
    CASE thr[t].pc = "total" ->
            /\ CanLock(e)
            /\ mu' = [mu EXCEPT ![e].writer = t]
            /\ st' = [st EXCEPT ![e] = IncTotal(@)]
            /\ thr' = [thr EXCEPT ![t].pc = "verdict"]
            /\ UNCHANGED confSum
      [] thr[t].pc = "verdict" ->
            /\ st' = [st EXCEPT ![e] = IncVerdict(@, thr[t].isBot)]
            /\ thr' = [thr EXCEPT ![t].pc = "avg"]
            /\ UNCHANGED << mu, confSum >>
      [] thr[t].pc = "avg" ->
            /\ st' = [st EXCEPT ![e] = SetAverage(@, thr[t].conf)]
            /\ confSum' = [confSum EXCEPT ![e] = @ + thr[t].conf]
            /\ mu' = [mu EXCEPT ![e].writer = None]
            /\ thr' = [thr EXCEPT ![t] = AfterUpdate(t, e)]
      [] OTHER -> FALSE

\* cortex.Engine.updateStats
cortexUpdateStats(t) ==
    /\ thr[t].op = "cortex.Analyze"
    /\ UpdateStatsStep(t, "cortex")
    /\ UNCHANGED << argusVars, ml, call >>

\* MLEngine.updateStats, called by Predict
mlUpdateStats(t) ==
    /\ thr[t].op \in {"ml.Predict", "mlc.Analyze"} /\ thr[t].on = "ml"
    /\ UpdateStatsStep(t, "ml")
    /\ UNCHANGED << argusVars, ml, call >>

\* MLCortexEngine.updateStats, called by Analyze after Predict has returned
mlcUpdateStats(t) ==
    /\ thr[t].op = "mlc.Analyze" /\ thr[t].on = "mlc"
    /\ UpdateStatsStep(t, "mlc")
    /\ UNCHANGED << argusVars, ml, call >>

\* A goroutine calls GetStatistics of engine e.
CallGetStatistics(t) ==
    /\ thr[t].op = "idle"
    /\ \E e \in Engines :
          thr' = [thr EXCEPT ![t] =
                    [IdleThread EXCEPT !.op = "GetStatistics", !.pc = "rlock",
                                       !.on = e]]
    /\ UNCHANGED << argusVars, st, mu, confSum, ml, call >>

\* cortex.Engine.GetStatistics and MLEngine.GetStatistics: RLock, copy the
\* struct, RUnlock, return the copy.
GetStatistics(t) ==
    /\ thr[t].op = "GetStatistics" /\ thr[t].on \in {"cortex", "ml"}
    /\ CanRLock(thr[t].on)
    /\ thr' = [thr EXCEPT ![t] =
                 [IdleThread EXCEPT !.on = thr[t].on,
                                    !.snap = CopyStats(st[thr[t].on])]]
    /\ UNCHANGED << argusVars, st, mu, confSum, ml, call >>

\* MLCortexEngine.GetStatistics: stats.mu.RLock (released on return), then
\* e.mlEngine.GetStatistics(), then stats.mu.Lock to overwrite the counters
\* with the ML engine's, Unlock, and return a copy.
MLCortexGetStatistics(t) ==
    /\ thr[t].op = "GetStatistics" /\ thr[t].on = "mlc"
    /\ CASE thr[t].pc = "rlock" ->
               /\ CanRLock("mlc")
               /\ mu' = [mu EXCEPT !["mlc"].readers = @ \cup {t}]
               /\ thr' = [thr EXCEPT ![t].pc = "mlstats"]
               /\ UNCHANGED st
         [] thr[t].pc = "mlstats" ->
               /\ CanRLock("ml")
               /\ thr' = [thr EXCEPT ![t].pc = "lock", ![t].mlStats = st["ml"]]
               /\ UNCHANGED << st, mu >>
         [] thr[t].pc = "lock" ->
               /\ CanLock("mlc")
               /\ st' = [st EXCEPT !["mlc"] = thr[t].mlStats]
               /\ mu' = [mu EXCEPT !["mlc"].readers = @ \ {t}]
               /\ thr' = [thr EXCEPT ![t] =
                            [IdleThread EXCEPT !.on = "mlc",
                                               !.snap = CopyStats(thr[t].mlStats)]]
         [] OTHER -> FALSE
    /\ UNCHANGED << argusVars, confSum, ml, call >>

\* The steps of a call that is under way.
Proceed(t) ==
    \/ cortexUpdateStats(t)
    \/ mlUpdateStats(t)
    \/ mlcUpdateStats(t)
    \/ GetStatistics(t)
    \/ MLCortexGetStatistics(t)

StatsNext ==
    \/ \E t \in Callers : CortexAnalyze(t)
    \/ \E t \in Callers : Predict(t)
    \/ \E t \in Callers : MLCortexAnalyze(t)
    \/ \E t \in Callers : CallGetStatistics(t)
    \/ \E t \in Callers : Proceed(t)

\* Goroutines calling into the three engines.
StatsSpec == Init /\ [][StatsNext]_vars

\* The Go scheduler runs every goroutine that can take a step.
FairStatsSpec == StatsSpec /\ \A t \in Callers : WF_vars(Proceed(t))

\* ------------------------------------------------------------- claims
Refs == 1..Len(heap)

\* A reference is in the table.
InTable(r) == \E id \in FlowIDs : flows[id] = r

\* An analysis of the flow object is under way: a cycle has marked it and
\* not yet dispatched it, or a dispatched goroutine has not ended.
InFlight(r) ==
    \/ \E a \in Analyzers :
          analyzer[a].pc = "extract" /\ Head(analyzer[a].batch) = r
    \/ \E t \in BagToSet(tasks) : t.ref = r

\* C1: a cycle marks and dispatches a flow only when the flow's
\* AnalysisPending flag is not already set, also with two cycles running
\* at once: no flow is dispatched a second time while it is pending.
C1_DispatchedOnce ==
    [][\A a \in Analyzers :
         (analyzer[a].pc = "mark" /\ analyzer'[a].pc = "extract")
            => ~heap[Head(analyzer[a].batch)].AnalysisPending]_vars

\* C2: once the analysis of a dispatched flow has completed (no cycle and no
\* goroutine is working on it any more), its AnalysisPending flag is clear.
C2_PendingCleared ==
    \A r \in Refs : heap[r].AnalysisPending => InFlight(r)

\* C3: after Close, no periodic activity starts new work: no capture, no
\* analysis cycle and no sweep begins.
C3_CloseStopsPipeline ==
    [][closed =>
         /\ (ingest.pc = "select" => ingest'.pc \in {"select", "exited"})
         /\ \A a \in Analyzers :
               analyzer[a].pc = "select"
                  => analyzer'[a].pc \in {"select", "exited"}
         /\ (cleanup.pc = "select" => cleanup'.pc \in {"select", "exited"})]_vars

\* C4: when Close has returned, no analysis goroutine dispatched before the
\* cancellation is still running.
C4_CloseWaitsForTasks ==
    closed => \A t \in BagToSet(tasks) : ~t.preClose

\* C5: a sweep that read the clock at time `at` removes exactly the flows
\* with at - LastSeen > IdleTimeout and keeps the others, pending or not.
C5_SweepRemovesExactlyIdle ==
    [][(cleanup.pc = "sweep" /\ cleanup'.pc = "select") =>
         \A id \in FlowIDs :
            flows'[id] =
               IF flows[id] # NoFlow
                    /\ cleanup.at - heap[flows[id]].LastSeen > IdleTimeout
               THEN NoFlow ELSE flows[id]]_vars

\* C5 witness: a flow that was pending has been swept out of the table.
C5_Witness ==
    \E r \in Refs : ~InTable(r) /\ heap[r].AnalysisPending

\* C6: a packet ingested for a flow ID that is not in the table creates a
\* new Flow object holding only that packet, with AnalysisPending false and
\* StartTime the time of the ingest; the objects evicted earlier are left
\* as they were.
C6_FreshAfterEviction ==
    [][\A id \in FlowIDs :
         (flows[id] = NoFlow /\ flows'[id] # NoFlow) =>
            /\ flows'[id] = Len(heap) + 1
            /\ Len(heap') = Len(heap) + 1
            /\ \A r \in Refs : heap'[r] = heap[r]
            /\ Len(heap'[flows'[id]].Packets) = 1
            /\ heap'[flows'[id]].Packets[1].Timestamp = ingest.ts
            /\ ~heap'[flows'[id]].AnalysisPending
            /\ heap'[flows'[id]].StartTime = now
            /\ heap'[flows'[id]].ID = id]_vars

\* C6 witness: a flow was evicted with ten packets and its flag set, and
\* the flow now in the table under the same ID has one packet and no flag.
C6_Witness ==
    \E id \in FlowIDs : \E r \in Refs :
        /\ flows[id] # NoFlow /\ flows[id] # r
        /\ heap[r].ID = id
        /\ heap[r].AnalysisPending /\ Len(heap[r].Packets) >= MinPackets
        /\ Len(Flow(id).Packets) = 1 /\ ~Flow(id).AnalysisPending
        /\ Flow(id).StartTime > heap[r].StartTime

\* ------------------------------------------------ claims on the aggregators
\* No updateStats is inside its locked section on engine e.
Quiescent(e) == mu[e].writer = None

Counted(s) == s.BotDetections + s.HumanDetections = s.TotalInferences

\* C7: on each of the three aggregators the counters are never negative,
\* never decrease, and whenever no update holds the lock the bot and human
\* counts add up to the total, however the concurrent calls interleave.
C7_CountersAddUp ==
    /\ [](\A e \in Engines :
            /\ st[e].TotalInferences >= 0
            /\ st[e].BotDetections >= 0
            /\ st[e].HumanDetections >= 0
            /\ Quiescent(e) => Counted(st[e]))
    /\ [][\A e \in Engines :
            /\ st'[e].TotalInferences >= st[e].TotalInferences
            /\ st'[e].BotDetections >= st[e].BotDetections
            /\ st'[e].HumanDetections >= st[e].HumanDetections]_vars

\* Every aggregator has recorded a bot and a human, with two goroutines
\* having been inside updateStats.
C7_Witness ==
    \A e \in Engines :
        /\ Quiescent(e)
        /\ st[e].BotDetections >= 1
        /\ st[e].HumanDetections >= 1

\* C8: once n results are recorded the average is the exact mean of their
\* confidences, and it lies in [0,1].
C8_AverageIsMean ==
    \A e \in Engines :
        /\ st[e].AverageConfidence.num >= 0
        /\ st[e].AverageConfidence.num <= st[e].AverageConfidence.den
        /\ (Quiescent(e) /\ st[e].TotalInferences > 0) =>
              st[e].AverageConfidence =
                  Rat(confSum[e], st[e].TotalInferences * Scale)

\* Three results of differing confidence have been averaged.
C8_Witness ==
    \E e \in Engines :
        /\ Quiescent(e)
        /\ st[e].TotalInferences >= 3
        /\ st[e].BotDetections >= 1
        /\ st[e].HumanDetections >= 1

\* C9: every call of GetStatistics returns.
C9_GetStatisticsReturns ==
    \A t \in Callers : (thr[t].op = "GetStatistics") ~> (thr[t].op = "idle")

\* Goroutine t is back from GetStatistics with the *Statistics it returned.
HoldsSnapshot(t) == thr[t].op = "idle" /\ thr[t].on # None

\* C10: the snapshot GetStatistics returns is the live record of the instant
\* of the copy, never a half-applied update, and no later step changes what
\* its holder reads.
C10_SnapshotIsCopy ==
    [][\A t \in Callers :
          /\ (thr[t].op = "GetStatistics" /\ HoldsSnapshot(t)') =>
                /\ View(thr[t].on, thr[t].snap)' = st[thr[t].on]
                /\ Counted(View(thr[t].on, thr[t].snap)')
          /\ (HoldsSnapshot(t) /\ thr'[t] = thr[t]) =>
                View(thr[t].on, thr[t].snap)' = View(thr[t].on, thr[t].snap)
      ]_vars

\* A goroutine holds a snapshot that the live record has since outgrown.
C10_Witness ==
    \E t \in Callers :
        /\ HoldsSnapshot(t)
        /\ Quiescent(thr[t].on)
        /\ thr[t].snap.val.TotalInferences >= 1
        /\ st[thr[t].on].TotalInferences > thr[t].snap.val.TotalInferences

\* ------------------------------------------------------------- flow IDs
\* Strings are sequences of characters.
Digits == << "0", "1", "2", "3", "4", "5", "6", "7", "8", "9" >>

\* fmt's %d of an unsigned number: its decimal digits.
RECURSIVE FormatUint(_)
FormatUint(n) ==
    IF n < 10 THEN << Digits[n + 1] >>
    ELSE FormatUint(n \div 10) \o << Digits[(n % 10) + 1] >>

\* Mutant of generateFlowID: the endpoint with the smaller port comes first,
\* so the two directions of a connection share an ID.
generateFlowIDUndirected(srcIP, dstIP, srcPort, dstPort) ==
    IF srcPort <= dstPort
    THEN srcIP \o <<":">> \o FormatUint(srcPort) \o <<"-">>
            \o dstIP \o <<":">> \o FormatUint(dstPort)
    ELSE dstIP \o <<":">> \o FormatUint(dstPort) \o <<"-">>
            \o srcIP \o <<":">> \o FormatUint(srcPort)

\* fmt.Sprintf("%s:%d-%s:%d", srcIP, srcPort, dstIP, dstPort)
generateFlowID(srcIP, dstIP, srcPort, dstPort) ==
    srcIP \o <<":">> \o FormatUint(srcPort) \o <<"-">>
        \o dstIP \o <<":">> \o FormatUint(dstPort)

\* The characters of the addresses tried (a digit and the separator that
\* IPv6 text shares with the ID format) and their texts up to MaxAddrLen.
AddrChars == {"1", ":"}
RECURSIVE Texts(_)
Texts(n) ==
    IF n = 0 THEN { << >> }
    ELSE Texts(n - 1) \cup
         { Append(t, c) : t \in { u \in Texts(n - 1) : Len(u) = n - 1 },
                          c \in AddrChars }
Addrs == Texts(MaxAddrLen) \ { << >> }
\* uint16 ports: the ends of the range, and two whose digits overlap.
Ports == {0, 1, 11, 65535}
Tuples ==
    { [srcIP |-> a, srcPort |-> p, dstIP |-> b, dstPort |-> q] :
        a \in Addrs, p \in Ports, b \in Addrs, q \in Ports }

FlowIDOf(t) == generateFlowID(t.srcIP, t.dstIP, t.srcPort, t.dstPort)

\* A 4-tuple is chosen; nothing has been called on it yet.
FlowIDInit ==
    /\ EngineInit
    /\ ml = NewMLEngine(DefaultMLConfig)
    /\ call \in { [fn |-> "generateFlowID", args |-> t, ret |-> << >>] :
                    t \in Tuples }

\* One more call of e.generateFlowID on the chosen 4-tuple.
CallGenerateFlowID ==
    /\ call.fn = "generateFlowID"
    /\ Len(call.ret) < 2
    /\ call' = [call EXCEPT !.ret = Append(@, FlowIDOf(call.args))]
    /\ UNCHANGED << argusVars, st, mu, thr, confSum, ml >>

FlowIDNext == CallGenerateFlowID

\* generateFlowID called on any 4-tuple, twice.
FlowIDSpec == FlowIDInit /\ [][FlowIDNext]_vars

\* C11: repeated calls on one 4-tuple return one ID, its text is
\* "src:sport-dst:dport", and no 4-tuple that differs in a component
\* (the swapped one included) has the same ID.
C11_FlowIDInjective ==
    \A k \in 1..Len(call.ret) :
        /\ call.ret[k] = call.ret[1]
        /\ call.ret[k] =
              call.args.srcIP \o <<":">> \o FormatUint(call.args.srcPort)
                 \o <<"-">> \o
              call.args.dstIP \o <<":">> \o FormatUint(call.args.dstPort)
        /\ \A u \in Tuples : u # call.args => FlowIDOf(u) # call.ret[k]

\* The ID was computed twice for a 4-tuple whose swap is another 4-tuple.
C11_Witness ==
    /\ Len(call.ret) = 2
    /\ call.args.srcIP # call.args.dstIP
    /\ call.args.srcPort > call.args.dstPort

\* ---------------------------------------------------- feature extraction
\* The packets of flow f carry strictly increasing timestamps.
Increasing(f) ==
    \A i \in 1..(Len(f.Packets) - 1) :
        f.Packets[i].Timestamp < f.Packets[i + 1].Timestamp

\* C12: for a flow in the table that ingestion fed three packets at
\* t0 < t1 < t2, extraction gives slot 0 the mean size, slot 20 the count 3
\* and slot 21 the seconds from the first packet to the last, t2 - t0.
C12_DurationIsPacketSpan ==
    \A id \in Present :
        LET f == Flow(id)
            v == extractFeatures(f)
        IN (Len(f.Packets) = 3 /\ Increasing(f)) =>
              /\ Slot(v, 0) = Rat(SumSizes(f.Packets), 3)
              /\ Slot(v, 20) = Rat(3, 1)
              /\ Slot(v, 21) =
                    Rat(Seconds(f.Packets[3].Timestamp
                                  - f.Packets[1].Timestamp), 1)

\* C14: every flow in the table holds at least one packet, and extraction
\* on it gives a vector of exactly FeatureSize slots, not all of them zero.
C14_TableFlowsExtract ==
    \A id \in Present :
        LET v == extractFeatures(Flow(id))
        IN /\ Len(Flow(id).Packets) >= 1
           /\ Len(v) = FeatureSize
           /\ \E i \in 0..(FeatureSize - 1) : Slot(v, i) # RatZero

\* A flow of the table has been through extraction and dispatch.
C14_Witness ==
    \E t \in BagToSet(tasks) :
        /\ InTable(t.ref)
        /\ t.feat = extractFeatures(heap[t.ref])
        /\ Len(heap[t.ref].Packets) >= MinPackets

\* Flows handed to extractFeatures directly: up to MaxFlowPackets packets
\* in arrival order, LastSeen the time of the last one as addPacketToFlow
\* leaves it, StartTime any clock value.
PacketSizes == {0, 1200}
PacketSeqs ==
    UNION { { ps \in [1..n -> [Timestamp : 0..MaxTime, Size : PacketSizes]] :
                \A i \in 1..(n - 1) : ps[i].Timestamp <= ps[i + 1].Timestamp } :
            n \in 1..MaxFlowPackets }
SampleFlows ==
    { [ ID |-> "f1", Packets |-> ps, StartTime |-> t,
        LastSeen |-> ps[Len(ps)].Timestamp, AnalysisPending |-> FALSE ] :
        ps \in PacketSeqs, t \in 0..MaxTime }

\* A flow with packets is chosen; extractFeatures has not run on it yet.
ExtractInit ==
    /\ EngineInit
    /\ ml = NewMLEngine(DefaultMLConfig)
    /\ call \in { [fn |-> "extractFeatures", flow |-> f, ret |-> << >>] :
                    f \in SampleFlows }

\* e.extractFeatures(flow)
CallExtractFeatures ==
    /\ call.fn = "extractFeatures"
    /\ call.ret = << >>
    /\ call' = [call EXCEPT !.ret = extractFeatures(call.flow)]
    /\ UNCHANGED << argusVars, st, mu, thr, confSum, ml >>

ExtractNext == CallExtractFeatures

\* extractFeatures called on any flow that has packets.
ExtractSpec == ExtractInit /\ [][ExtractNext]_vars

\* C13: on a flow with packets the vector holds the computed value in each
\* computed slot (0: mean size, 10: interval variance from two packets on,
\* 20: packet count, 21: LastSeen - StartTime in seconds), a computed 0
\* included, and the filler (i mod 10)/10 in every other slot.
C13_ComputedSlotsKept ==
    call.ret # << >> =>
        LET f == call.flow
            n == Len(f.Packets)
        IN \A i \in 0..(FeatureSize - 1) :
              Slot(call.ret, i) =
                  CASE i = 0 -> Rat(SumSizes(f.Packets), n)
                    [] i = 10 /\ n >= 2 -> IntervalVariance(f)
                    [] i = 20 -> Rat(n, 1)
                    [] i = 21 -> Rat(Seconds(f.LastSeen - f.StartTime), 1)
                    [] OTHER -> Rat(i % 10, 10)

\* ------------------------------------------------- training and prediction
ModelTypes == {"neural_network", "svm", "ensemble"}
\* The detection thresholds tried: the defaults of the two configurations.
Thresholds == {MLDetectionThreshold, DetectionThreshold}

\* Feature vectors handed to the engines: the first k slots hold `hi`, the
\* others `lo`; of the configured length, or one slot short.  A float64 slot
\* may hold NaN.
Pattern(len, k, hi, lo) == [i \in 1..len |-> IF i <= k THEN hi ELSE lo]
FeatureSamples ==
    { Pattern(len, k, hi, lo) :
        len \in {FeatureSize, FeatureSize - 1}, k \in {0, 4, 6, 8},
        hi \in {Rat(4, 5), Rat(1500, 1), NaN},
        lo \in {RatZero, Rat(1, 5), Rat(7, 20)} }

\* What the forward pass of a trained network may give.
NNOutcomes == {Err, Ok(20), Ok(80)}
\* (UnixNano % 100) / 1000 of simulateInference, the values in 1/Scale.
ClockNoise == {0, 5, 9}

\* What GenerateFakeData may hand to training: nothing (FakeDataSize 0), one
\* human sample, a bot and a human sample; each sample a level that all its
\* FeatureSize slots hold.
TrainingSets ==
    { << >>,
      << [label |-> 0, level |-> Rat(1, 5)] >>,
      << [label |-> 1, level |-> Rat(4, 5)],
         [label |-> 0, level |-> Rat(1, 5)] >> }

\* trainSVM's loop: 100 passes of w[k] += 0.01 * label * f[k] over the
\* samples, label 0 counted as -1: each sample adds label * f[k] in all.
RECURSIVE TrainedWeight(_, _)
TrainedWeight(w, data) ==
    IF data = << >> THEN w
    ELSE TrainedWeight(
            IF Head(data).label = 0 THEN RatSub(w, Head(data).level)
            ELSE RatAdd(w, Head(data).level),
            Tail(data))

\* One engine configuration is chosen; nothing is trained, nothing called.
NoPrediction ==
    [ fn |-> "none", features |-> << >>, nn |-> FALSE, svm |-> FALSE,
      during |-> "idle",
      out |-> Err, ret |-> [status |-> "none", conf |-> 0, isBot |-> FALSE] ]

PredictInit ==
    /\ EngineInit
    /\ ml \in { NewMLEngine([DefaultMLConfig EXCEPT
                                !.ModelType = m, !.DetectionThreshold = th,
                                !.GenerateFakeData = FALSE]) :
                  m \in ModelTypes, th \in Thresholds }
    /\ call = NoPrediction

\* TrainOnFakeData: GenerateFakeData, then the switch on the model type.
\* (ml.was keeps the trained flags as the call found them, ml.err whether
\* the call returned an error.)
\* Every case of the switch returns what the training function returns, so
\* the statements after the switch (stats.TrainingTime = time.Since(startTime))
\* are never reached: ml.TrainingTime keeps the zero value of NewMLEngine.
TrainOnFakeData ==
    /\ ml.pc = "idle"
    /\ ml.runs < MaxTrainings
    /\ \E data \in TrainingSets :
          ml' = [ml EXCEPT !.data = data, !.runs = @ + 1,
                           !.err = FALSE,
                           !.was = [nn |-> ml.nnTrained, svm |-> ml.svmTrained],
                           !.pc = IF ml.config.ModelType = "svm"
                                  THEN "svm" ELSE "nn"]
    /\ UNCHANGED << argusVars, st, mu, thr, confSum, call >>

\* trainNeuralNetwork: e.nnModel.trained = true; trainEnsemble goes on to
\* trainSVM.
trainNeuralNetwork ==
    /\ ml.pc = "nn"
    /\ ml' = [ml EXCEPT !.nnTrained = TRUE,
                        !.pc = IF ml.config.ModelType = "ensemble"
                               THEN "svm" ELSE "idle"]
    /\ UNCHANGED << argusVars, st, mu, thr, confSum, call >>

\* Mutant of trainSVM: trained is set on the error return too.
trainSVMMarksOnError ==
    /\ ml.pc = "svm"
    /\ ml' = [ml EXCEPT !.pc = "idle", !.svmTrained = TRUE, !.data = << >>,
                        !.weights = [k \in 1..Len(ml.weights) |->
                                        TrainedWeight(ml.weights[k], ml.data)]]
    /\ UNCHANGED << argusVars, st, mu, thr, confSum, call >>

\* trainSVM: an error on empty data; else the weight updates and
\* e.svmModel.trained = true.
trainSVM ==
    /\ ml.pc = "svm"
    /\ ml' = IF ml.data = << >>
             THEN [ml EXCEPT !.pc = "idle", !.err = TRUE]
             ELSE [ml EXCEPT !.pc = "idle", !.svmTrained = TRUE, !.data = << >>,
                     !.weights = [k \in 1..Len(ml.weights) |->
                                     TrainedWeight(ml.weights[k], ml.data)]]
    /\ UNCHANGED << argusVars, st, mu, thr, confSum, call >>

\* The record of a call that has returned.
Returned(fn, features, out, r, isBot) ==
    [ fn |-> fn, features |-> features, nn |-> ml.nnTrained,
      svm |-> ml.svmTrained, during |-> ml.pc,
      out |-> IF ml.nnTrained /\ ml.config.ModelType # "svm" THEN out ELSE Err,
      ret |-> [status |-> r.status, conf |-> r.conf,
               isBot |-> r.status = "ok" /\ isBot] ]

\* What a confidence adds to the sum of the recorded ones.
Finite(conf) == IF conf = NaNConf THEN 0 ELSE conf

\* updateStats on engine e, the whole locked section.
Record(s, e, isBot, conf) == [s EXCEPT ![e] = updateStats(@, isBot, conf)]

\* MLEngine.Predict: the model's confidence, isBot, updateStats.  An error
\* or a panic leaves before updateStats.  Predict holds e.mu.RLock; only
\* initializeModels takes e.mu.Lock, TrainOnFakeData and the training
\* functions take no lock, so the call can run at any point of a training.
MLEnginePredict ==
    /\ call.fn = "none"
    /\ \E x \in FeatureSamples, out \in NNOutcomes :
          LET r == PredictConfidence(ml, x, out)
              isBot == mlIsBotAt(r.conf, ml.config.DetectionThreshold)
          IN /\ call' = Returned("ml.Predict", x, out, r, isBot)
             /\ IF r.status = "ok"
                THEN /\ st' = Record(st, "ml", isBot, r.conf)
                     /\ confSum' = [confSum EXCEPT !["ml"] = @ + Finite(r.conf)]
                ELSE UNCHANGED << st, confSum >>
    /\ UNCHANGED << argusVars, mu, thr, ml >>

\* MLCortexEngine.Analyze: the length check against config.FeatureSize,
\* e.mlEngine.Predict, then its own updateStats.  The whole call holds the
\* MLCortexEngine's mu.RLock, which RetrainModel holds as a writer around
\* TrainOnFakeData of the engine it owns: no training is under way.
MLCortexEngineAnalyze ==
    /\ call.fn = "none"
    /\ ml.pc = "idle"
    /\ \E x \in FeatureSamples, out \in NNOutcomes :
          LET r == IF Len(x) # ml.owner.FeatureSize THEN Err
                   ELSE PredictConfidence(ml, x, out)
              isBot == mlIsBotAt(r.conf, ml.config.DetectionThreshold)
          IN /\ call' = Returned("mlc.Analyze", x, out, r, isBot)
             /\ IF r.status = "ok"
                THEN /\ st' = Record(Record(st, "ml", isBot, r.conf),
                                     "mlc", isBot, r.conf)
                     /\ confSum' = [confSum EXCEPT
                                    !["ml"] = @ + Finite(r.conf),
                                    !["mlc"] = @ + Finite(r.conf)]
                ELSE UNCHANGED << st, confSum >>
    /\ UNCHANGED << argusVars, mu, thr, ml >>

\* cortex.Engine.Analyze: the length check against the model's InputSize,
\* simulateInference, isBot, updateStats.  The engine is configured with the
\* threshold the ML engine has.
CortexEngineAnalyze ==
    /\ call.fn = "none"
    /\ \E x \in FeatureSamples, noise \in ClockNoise :
          LET r == IF cortexAnalyzeFails(x) THEN Err
                   ELSE Ok(simulateInference(x, noise))
              isBot == cortexIsBotAt(r.conf, ml.config.DetectionThreshold)
          IN /\ call' = Returned("cortex.Analyze", x, Err, r, isBot)
             /\ IF r.status = "ok"
                THEN /\ st' = Record(st, "cortex", isBot, r.conf)
                     /\ confSum' = [confSum EXCEPT !["cortex"] = @ + r.conf]
                ELSE UNCHANGED << st, confSum >>
    /\ UNCHANGED << argusVars, mu, thr, ml >>

PredictNext ==
    \/ TrainOnFakeData
    \/ trainNeuralNetwork
    \/ trainSVM
    \/ MLEnginePredict
    \/ MLCortexEngineAnalyze
    \/ CortexEngineAnalyze

\* An engine of any model type and threshold, trained at any moments, and one
\* call of a prediction entry point on any sample vector.
PredictSpec == PredictInit /\ [][PredictNext]_vars

\* ----------------------------------------------------- detection threshold
\* C15: in cortex.Engine.Analyze and in MLEngine.Predict alike, the result
\* of a call that returned one has isBot true exactly when its confidence is
\* at least the detection threshold.
C15_ThresholdIsMinimum ==
    (call.fn \in {"ml.Predict", "cortex.Analyze"} /\ call.ret.status = "ok")
        => (call.ret.isBot <=> call.ret.conf >= ml.config.DetectionThreshold)

\* ------------------------------------------------------------- ensemble
\* C16: an ensemble engine with exactly one sub-model trained returns that
\* model's confidence.  trainEnsemble trains the network first, so the one
\* trained model is the network, whose output is call.out.
C16_EnsembleMeansTrainedOnly ==
    (/\ call.fn = "ml.Predict"
     /\ ml.config.ModelType = "ensemble"
     /\ call.nn /\ ~call.svm
     /\ call.out.status = "ok")
        => (call.ret.status = "ok" /\ call.ret.conf = call.out.conf)

\* C17: a Predict on an engine none of whose models is trained returns a
\* result, never an error, and its confidence is exactly what
\* simulatePrediction gives for the same vector; for the ensemble this is
\* the mean of the two sub-models' heuristic answers.
C17_UntrainedIsHeuristic ==
    (call.fn = "ml.Predict" /\ ~call.nn /\ ~call.svm)
        => (/\ call.ret.status = "ok"
            /\ call.ret.conf = simulatePrediction(call.features))

\* An untrained ensemble has answered with a heuristic score that is not 0.
C17_Witness ==
    /\ call.fn = "ml.Predict"
    /\ ml.config.ModelType = "ensemble"
    /\ ~call.nn /\ ~call.svm
    /\ call.ret.status = "ok"
    /\ call.ret.conf = 60

\* ------------------------------------------------------ confidence range
\* C18: on a feature vector of the configured length, every result a
\* prediction entry point returns has a confidence c with 0 <= c <= 1.
C18_ConfidenceInUnitInterval ==
    (call.ret.status = "ok" /\ Len(call.features) = FeatureSize)
        => (call.ret.conf >= 0 /\ call.ret.conf <= Scale)

\* ------------------------------------------------- wrong-length vectors
\* C19: a call of a prediction entry point on a vector whose length is not
\* the configured feature size returns an error, in every training state:
\* no panic, no result, and the statistics of every engine as they were
\* (the call is the first one, so still the zero value).
C19_WrongLengthRejected ==
    (call.fn # "none" /\ Len(call.features) # FeatureSize)
        => (/\ call.ret.status = "error"
            /\ \A e \in Engines : st[e] = NewStatistics)

\* ------------------------------------------- ingestion against analysis
\* A cortex.Analyze call of an analysis goroutine is in progress.
Analyzing == \E t \in BagToSet(tasks) : t.pc = "analyze"

\* C20: ingestion never blocks on analysis.  While Analyze calls are in
\* progress an addPacketToFlow that has been called can take its locks and
\* complete, unless a selection loop holds flowsMu.RLock at that moment; and
\* that loop waits for nothing, its next iteration can run.
C20_IngestNotBlockedByAnalysis ==
    (ingest.pc = "add" /\ Analyzing)
        => \/ ENABLED AddPacketToFlow
           \/ \E a \in Analyzers :
                 analyzer[a].pc = "scan" /\ ENABLED ScanOne(a)

\* A packet has been added to a flow after its features were extracted and
\* while its analysis is still in progress.
C20_Witness ==
    \E t \in BagToSet(tasks) :
        /\ t.pc = "analyze"
        /\ Len(heap[t.ref].Packets) > Slot(t.feat, 20).num

\* ------------------------------------------- concurrent addPacketToFlow
\* Callers of addPacketToFlow running side by side (the processPackets
\* goroutines of an engine started twice, or a test), the flow IDs and the
\* packet sizes they use.
Ingesters == {"g1", "g2"}
IngestIDs == {"f1", "f2"}
IngestSizes == {800, 1200}

\* A packet is stamped when it is made; its addPacketToFlow call takes
\* effect when it gets flowsMu.Lock, possibly after a call made later.
\* call.pending are the calls made and waiting for the lock; call.log lists
\* the calls in the order in which they took effect.
IngestInit ==
    /\ now = 0
    /\ heap = << >>
    /\ flows = [id \in IngestIDs |-> NoFlow]
    /\ stats = [TotalPackets |-> 0, ActiveFlows |-> 0, AnalyzedFlows |-> 0,
                LastPacket |-> 0]
    /\ started = FALSE
    /\ ctxDone = FALSE
    /\ closed = FALSE
    /\ ingest = [pc |-> "off", i |-> 0, ts |-> 0]
    /\ analyzer = [a \in Analyzers |-> [IdleAnalyzer EXCEPT !.pc = "off"]]
    /\ cleanup = [pc |-> "off", at |-> 0, cutoff |-> 0]
    /\ tasks = EmptyBag
    /\ captures = 0
    /\ st = [e \in Engines |-> NewStatistics]
    /\ mu = [e \in Engines |-> [writer |-> None, readers |-> {}]]
    /\ thr = [t \in Callers |-> IdleThread]
    /\ confSum = [e \in Engines |-> 0]
    /\ ml = NewMLEngine(DefaultMLConfig)
    /\ call = [fn |-> "addPacketToFlow", pending |-> {}, log |-> << >>]

\* packet := &Packet{Timestamp: time.Now(), ...}; e.addPacketToFlow(id, packet)
\* is called and waits for flowsMu.Lock.
CallAddPacketToFlow(g) ==
    /\ \A p \in call.pending : p.by # g
    /\ Len(call.log) + Cardinality(call.pending) < MaxIngests
    /\ \E id \in IngestIDs, size \in IngestSizes :
          call' = [call EXCEPT !.pending = @ \cup
                     {[by |-> g, id |-> id,
                       pkt |-> [Timestamp |-> now, Size |-> size]]}]
    /\ UNCHANGED << argusVars, st, mu, thr, confSum, ml >>

\* The body of addPacketToFlow under flowsMu.Lock: the flow is created if
\* the ID is not in the map, the packet appended, ActiveFlows refreshed.
RunAddPacketToFlow(g) ==
    /\ \E p \in call.pending :
          /\ p.by = g
          /\ LET exists == flows[p.id] # NoFlow
                 ref == IF exists THEN flows[p.id] ELSE Len(heap) + 1
                 heap1 == IF exists THEN heap
                          ELSE Append(heap, NewFlow(p.id, now))
             IN /\ heap' = [heap1 EXCEPT ![ref] = AppendPacket(@, p.pkt)]
                /\ flows' = [flows EXCEPT ![p.id] = ref]
                /\ stats' = [stats EXCEPT !.ActiveFlows =
                               Cardinality({x \in IngestIDs : flows'[x] # NoFlow})]
          /\ call' = [call EXCEPT !.pending = @ \ {p},
                                  !.log = Append(@, [id |-> p.id, pkt |-> p.pkt])]
    /\ UNCHANGED << now, started, ctxDone, closed, ingest, analyzer, cleanup,
                    tasks, captures, st, mu, thr, confSum, ml >>

IngestNext ==
    \/ Tick
    \/ \E g \in Ingesters : CallAddPacketToFlow(g)
    \/ \E g \in Ingesters : RunAddPacketToFlow(g)

\* Two callers feeding two flows, in any interleaving.
IngestSpec == IngestInit /\ [][IngestNext]_vars

\* The packets of the calls for flow `id`, in the order of call.log.
RECURSIVE Ingested(_, _)
Ingested(log, id) ==
    IF log = << >> THEN << >>
    ELSE (IF Head(log).id = id THEN << Head(log).pkt >> ELSE << >>)
            \o Ingested(Tail(log), id)

\* C21: a flow exists exactly when a call for its ID took effect; it bears
\* that ID, its packets are those of the calls for the ID in the order in
\* which they took effect, none lost and none twice, and LastSeen is the
\* timestamp of the last one.
C21_IngestAppendsInOrder ==
    \A id \in IngestIDs :
        LET pkts == Ingested(call.log, id)
        IN IF pkts = << >> THEN flows[id] = NoFlow
           ELSE /\ flows[id] # NoFlow
                /\ heap[flows[id]].ID = id
                /\ heap[flows[id]].Packets = pkts
                /\ heap[flows[id]].LastSeen = pkts[Len(pkts)].Timestamp

\* Calls for the two flows interleaved, the later call for f1 carrying a
\* packet of another size stamped before the one already stored.
C21_Witness ==
    /\ Len(call.log) >= 3
    /\ call.log[1].id = "f1" /\ call.log[2].id = "f2" /\ call.log[3].id = "f1"
    /\ call.log[3].pkt.Timestamp < call.log[1].pkt.Timestamp
    /\ call.log[3].pkt.Size # call.log[1].pkt.Size
    /\ Len(heap[flows["f1"]].Packets) = 2

\* C22: the packets stored in a flow never exceed a maximum per flow.  The
\* engine has no such setting; whatever the maximum, take it below the
\* number of addPacketToFlow calls made for one flow ID.
C22_PacketsPerFlowBounded ==
    \A r \in 1..Len(heap) : Len(heap[r].Packets) < MaxIngests

\* ---------------------------------------------------- selection for analysis
\* A step of analysis cycle a that puts a flow into its list: the flow has
\* MinPackets packets or more and is not pending, now, at selection time.
SelectsEligible(a) ==
    \E id \in analyzer[a].scan :
        /\ flows[id] # NoFlow
        /\ ~heap[flows[id]].AnalysisPending
        /\ Len(heap[flows[id]].Packets) >= MinPackets
        /\ analyzer'[a].batch = Append(analyzer[a].batch, flows[id])

\* C23: a cycle's list grows only in its selection loop and only by a flow
\* that is eligible at that moment; the list is consumed from its head, one
\* flow per dispatched goroutine, so only selected flows are dispatched; a
\* step of the selection loop changes no flow and not the map; marking is a
\* step of its own that sets AnalysisPending of the flow at the head of the
\* list and nothing else.
C23_DispatchOnlySelected ==
    [][\A a \in Analyzers :
          /\ (analyzer'[a].batch # analyzer[a].batch)
                => \/ analyzer[a].pc = "scan" /\ SelectsEligible(a)
                   \/ /\ analyzer[a].pc = "extract"
                      /\ analyzer'[a].batch = Tail(analyzer[a].batch)
                      /\ tasks' = tasks (+) SetToBag({NewTask(Head(analyzer[a].batch),
                                     extractFeatures(heap[Head(analyzer[a].batch)]))})
          /\ (analyzer[a].pc = "scan" /\ analyzer'[a] # analyzer[a])
                => (heap' = heap /\ flows' = flows)
          /\ (analyzer[a].pc = "mark" /\ analyzer'[a] # analyzer[a])
                => /\ analyzer'[a].batch = analyzer[a].batch
                   /\ heap' = [heap EXCEPT
                          ![Head(analyzer[a].batch)].AnalysisPending = TRUE]
          /\ (BagCardinality(tasks') > BagCardinality(tasks))
                => \E b \in Analyzers : analyzer[b].pc = "extract"
                                        /\ analyzer'[b] # analyzer[b]
      ]_vars

\* A selected flow has been marked and dispatched, and the next cycle is
\* about to look at it again.
C23_Witness ==
    \E t \in BagToSet(tasks), a \in Analyzers :
        /\ heap[t.ref].AnalysisPending
        /\ Slot(t.feat, 20).num >= MinPackets
        /\ analyzer[a].pc = "scan"
        /\ flows[heap[t.ref].ID] = t.ref

\* ------------------------------------------------ completion of analyses
\* The running engine after MinPackets - 1 capture ticks within one clock
\* unit and nothing else: the flow is one packet short of eligible.
WarmFlow ==
    [ NewFlow("f1", 0) EXCEPT
        !.Packets = [k \in 1..(MinPackets - 1) |->
                        [Timestamp |-> 0, Size |-> CapturePackets[1].size]] ]

CycleInit ==
    /\ now = 0
    /\ heap = << WarmFlow >>
    /\ flows = [id \in FlowIDs |-> 1]
    /\ stats = [TotalPackets |-> MinPackets - 1, ActiveFlows |-> 1,
                AnalyzedFlows |-> 0, LastPacket |-> 0]
    /\ started = TRUE
    /\ ctxDone = FALSE
    /\ closed = FALSE
    /\ ingest = [pc |-> "select", i |-> 0, ts |-> 0]
    /\ analyzer = [a \in Analyzers |->
                     IF a = "an1" THEN IdleAnalyzer
                     ELSE [IdleAnalyzer EXCEPT !.pc = "off"]]
    /\ cleanup = [pc |-> "select", at |-> 0, cutoff |-> 0]
    /\ tasks = EmptyBag
    /\ captures = MinPackets - 1
    /\ st = [e \in Engines |-> NewStatistics]
    /\ mu = [e \in Engines |-> [writer |-> None, readers |-> {}]]
    /\ thr = [t \in Callers |-> IdleThread]
    /\ confSum = [e \in Engines |-> 0]
    /\ ml = NewMLEngine(DefaultMLConfig)
    /\ call = NoCall

\* The pipeline from there on, shutdown included.
CycleNext ==
    \/ Tick
    \/ IngestTick
    \/ MakePacket
    \/ AddPacketToFlow
    \/ CountPackets
    \/ \E a \in Analyzers : BeginCycle(a)
    \/ \E a \in Analyzers : ScanOne(a)
    \/ \E a \in Analyzers : Mark(a)
    \/ \E a \in Analyzers : Dispatch(a)
    \/ \E t \in BagToSet(tasks) : TaskAnalyze(t)
    \/ \E t \in BagToSet(tasks) : TaskCount(t)
    \/ CleanupTick
    \/ RemoveOldFlows
    \/ StopNext

\* The Go scheduler runs every runnable goroutine: a cycle past its
\* selection loop goes on marking and dispatching, and a dispatched
\* goroutine goes through Analyze and its count.  Nothing is assumed of the
\* tickers, the clock or the callers of Close.
\* (A Dispatch step is told by what it does to the cycle: the head of the
\* list is taken off.  The vector it extracts plays no part in whether the
\* step can happen.)
Dispatches(a) ==
    /\ analyzer[a].pc = "extract"
    /\ analyzer' = [analyzer EXCEPT ![a] =
          [pc |-> IF Tail(analyzer[a].batch) = << >> THEN "select" ELSE "mark",
           scan |-> {}, batch |-> Tail(analyzer[a].batch)]]

CycleSpec ==
    /\ CycleInit /\ [][CycleNext]_vars
    /\ WF_vars(\E a \in Analyzers : Mark(a))
    /\ WF_analyzer(\E a \in Analyzers : Dispatches(a))
    /\ WF_vars(\E t \in BagToSet(tasks) : TaskAnalyze(t))
    /\ WF_vars(\E t \in BagToSet(tasks) : TaskCount(t))

\* Flow object r is in the list of a cycle, selected and not yet dispatched.
Selected(r) ==
    \E a \in Analyzers :
        \E k \in 1..Len(analyzer[a].batch) : analyzer[a].batch[k] = r

\* A goroutine dispatched for flow object r has not ended yet.
HasTask(r) == \E t \in BagToSet(tasks) : t.ref = r

\* The flows whose analysis was dispatched and has ended.
Classified ==
    { r \in 1..Len(heap) :
        heap[r].AnalysisPending /\ ~Selected(r) /\ ~HasTask(r) }

RepeatInit ==
    /\ EngineInit
    /\ ml = NewMLEngine(DefaultMLConfig)
    /\ call \in { [fn |-> "extractFeatures", flow |-> f, before |-> f,
                   rets |-> << >>] : f \in SampleFlows }

\* e.extractFeatures(flow) once more, at whatever time it is: the flow is
\* read under flow.mu.RLock, the vector is returned.
CallExtractFeaturesAgain ==
    /\ Len(call.rets) < MaxExtracts
    /\ call' = [call EXCEPT !.rets = Append(@, extractFeatures(call.flow))]
    /\ UNCHANGED << argusVars, st, mu, thr, confSum, ml >>

RepeatNext == Tick \/ CallExtractFeaturesAgain

\* extractFeatures called several times on one flow while the clock runs.
RepeatSpec == RepeatInit /\ [][RepeatNext]_vars

inferenceReasoning(score) ==
    IF score > 70 THEN "High confidence bot detection"
    ELSE IF score > 40 THEN "Suspicious activity detected"
    ELSE "Appears to be human traffic"

\* generateReasoning's opening, chosen by the confidence.
generateReasoning(conf) ==
    IF conf > 80 THEN "High confidence bot detection"
    ELSE IF conf > 60 THEN "Moderate confidence bot detection"
    ELSE IF conf > 40 THEN "Low confidence bot detection"
    ELSE "Human-like behavior detected"

\* A feature vector is chosen; no scorer has run on it yet.
ScoreInit ==
    /\ EngineInit
    /\ ml = NewMLEngine(DefaultMLConfig)
    /\ call \in { [fn |-> "score", features |-> x, rets |-> << >>] :
                    x \in FeatureSamples }

\* e.simulatePrediction(features) of the ML engine, with the reasoning
\* Predict derives from it.
CallSimulatePrediction ==
    /\ Len(call.rets) < MaxScores
    /\ LET conf == simulatePrediction(call.features)
       IN call' = [call EXCEPT !.rets = Append(@,
                      [by |-> "simulatePrediction", conf |-> conf,
                       reasoning |-> generateReasoning(conf)])]
    /\ UNCHANGED << argusVars, st, mu, thr, confSum, ml >>

\* e.simulateInference(features) of the cortex engine: the score takes in
\* time.Now().UnixNano() % 100 at the moment of the call.
CallSimulateInference ==
    /\ Len(call.rets) < MaxScores
    /\ \E noise \in ClockNoise :
          LET conf == simulateInference(call.features, noise)
          IN call' = [call EXCEPT !.rets = Append(@,
                         [by |-> "simulateInference", conf |-> conf,
                          reasoning |-> inferenceReasoning(conf)])]
    /\ UNCHANGED << argusVars, st, mu, thr, confSum, ml >>

ScoreNext == CallSimulatePrediction \/ CallSimulateInference

\* The two heuristic scorers called, in any order, on one feature vector.
ScoreSpec == ScoreInit /\ [][ScoreNext]_vars

\* C26: two calls of the same scorer on the same vector return the same
\* confidence and the same reasoning.
C26_HeuristicIsDeterministic ==
    \A i, j \in 1..Len(call.rets) :
        call.rets[i].by = call.rets[j].by => call.rets[i] = call.rets[j]

\* ------------------------------------------------------ the linear model
\* C27: the SVM becomes trained only by a trainSVM call on data that is not
\* empty; a trainSVM call on empty data leaves trained and the weights as
\* they are; trained never goes back to false; and a Predict of an svm
\* engine made while trained is false returns the heuristic confidence.
C27_UntrainedUntilTrainSucceeds ==
    [][/\ (ml'.svmTrained /\ ~ml.svmTrained)
            => (ml.pc = "svm" /\ ml.data # << >>)
       /\ (ml.pc = "svm" /\ ml'.pc # "svm" /\ ml.data = << >>)
            => (ml'.svmTrained = ml.svmTrained /\ ml'.weights = ml.weights)
       /\ ml.svmTrained => ml'.svmTrained
       /\ (/\ call.fn = "none" /\ call'.fn = "ml.Predict"
           /\ ml.config.ModelType = "svm" /\ ~ml.svmTrained)
            => (/\ call'.ret.status = "ok"
                /\ call'.ret.conf = simulatePrediction(call'.features))
      ]_vars

\* A trainSVM call has failed on empty data and the Predict after it has
\* answered with a heuristic score, the weights still all zero.
C27_Witness ==
    /\ ml.config.ModelType = "svm"
    /\ ml.runs = 1 /\ ml.pc = "idle" /\ ~ml.svmTrained
    /\ ml.weights = ZeroVec(FeatureSize)
    /\ call.fn = "ml.Predict" /\ call.ret.status = "ok"
    /\ call.ret.conf = 60

\* --------------------------------------------------------- training time
\* A TrainOnFakeData call has returned nil: the model of the configured
\* type has been trained (for the ensemble, both of them).
TrainingSucceeded ==
    /\ ml.runs >= 1 /\ ml.pc = "idle"
    /\ IF ml.config.ModelType = "neural_network" THEN ml.nnTrained
       ELSE ml.svmTrained

\* C28: after a successful TrainOnFakeData the statistics' TrainingTime has
\* been set: it is no longer the zero value.
C28_TrainingTimeRecorded ==
    TrainingSucceeded => ml.TrainingTime # 0

\* ------------------------------------------------------- the API server
\* Bodies of POST /api/v1/analyze: one that does not decode, one with an
\* empty features array, a vector one slot short of the model's input, a
\* vector scored as a bot and one scored as human.
BadBody == << Rat(0 - 1, 1) >>
AnalyzeBodies ==
    { BadBody, << >>,
      Pattern(InputSize - 1, 4, Rat(1500, 1), RatZero),
      Pattern(InputSize, 4, Rat(1500, 1), RatZero),
      Pattern(InputSize, 0, RatZero, Rat(7, 20)) }

\* newMetrics: the counters and the gauge start at zero.
newMetrics ==
    [ botDetections |-> 0, humanDetections |-> 0,
      activeFlows |-> 0, totalPackets |-> 0 ]

\* NewServer over a fresh cortex engine and an argus engine not started.
ServerInit ==
    /\ EngineInit
    /\ ml = NewMLEngine(DefaultMLConfig)
    /\ call = [fn |-> "server", metrics |-> newMetrics,
               requests |-> 0, status |-> 0]

\* handleAnalyze: 400 for a body that does not decode or has no features,
\* 500 when cortexEngine.Analyze fails, else the matching counter is
\* incremented and the result written with 200.
handleAnalyze ==
    /\ call.requests < MaxRequests
    /\ \E body \in AnalyzeBodies, noise \in ClockNoise :
          IF body = BadBody \/ Len(body) = 0
          THEN /\ call' = [call EXCEPT !.requests = @ + 1, !.status = 400]
               /\ UNCHANGED << st, confSum >>
          ELSE IF cortexAnalyzeFails(body)
          THEN /\ call' = [call EXCEPT !.requests = @ + 1, !.status = 500]
               /\ UNCHANGED << st, confSum >>
          ELSE LET conf == simulateInference(body, noise)
                   isBot == cortexIsBot(conf)
               IN /\ st' = Record(st, "cortex", isBot, conf)
                  /\ confSum' = [confSum EXCEPT !["cortex"] = @ + conf]
                  /\ call' = [call EXCEPT
                        !.requests = @ + 1, !.status = 200,
                        !.metrics.botDetections =
                            IF isBot THEN @ + 1 ELSE @,
                        !.metrics.humanDetections =
                            IF isBot THEN @ ELSE @ + 1]
    /\ UNCHANGED << argusVars, mu, thr, ml >>

\* handleStatistics: both GetStatistics, then botDetections.Add,
\* humanDetections.Add and totalPackets.Add of the cumulative totals read
\* and activeFlows.Set; the response is written with 200.
handleStatistics ==
    /\ call.requests < MaxRequests
    /\ LET cortexStats == st["cortex"]
           argusStats == stats
       IN call' = [call EXCEPT
             !.requests = @ + 1, !.status = 200,
             !.metrics.botDetections = @ + cortexStats.BotDetections,
             !.metrics.humanDetections = @ + cortexStats.HumanDetections,
             !.metrics.activeFlows = argusStats.ActiveFlows,
             !.metrics.totalPackets = @ + argusStats.TotalPackets]
    /\ UNCHANGED << argusVars, st, mu, thr, confSum, ml >>

ServerNext == handleAnalyze \/ handleStatistics

\* Any sequence of POST /api/v1/analyze and GET /api/v1/statistics requests
\* served one after the other.
ServerSpec == ServerInit /\ [][ServerNext]_vars

\* C29: after any sequence of analyze and statistics requests the bot and
\* human detection counters equal the cortex engine's cumulative
\* BotDetections and HumanDetections.
C29_CountersEqualEngineTotals ==
    /\ call.metrics.botDetections = st["cortex"].BotDetections
    /\ call.metrics.humanDetections = st["cortex"].HumanDetections

\* ------------------------------------------------- the locks of the engine
\* Here the calls of the argus engine are followed lock by lock.  mu holds
\* e.flowsMu, e.stats.mu and the mu of every Flow allocated; thr holds the
\* position of every activity: the goroutine in addPacketToFlow, one in
\* performFlowAnalysis, the goroutines it dispatches (one per Flow, as
\* AnalysisPending is never reset), one in removeOldFlows and one caller of
\* GetStatistics.
LockObjs == 1 + MaxSweeps
FlowMuNames == << "flow1", "flow2", "flow3", "flow4" >>
TaskNames == << "t1", "t2", "t3", "t4" >>
LockNames == {"flowsMu", "stats"} \cup {FlowMuNames[r] : r \in 1..LockObjs}
LockIngesters == {"g1"}
LockActivities ==
    LockIngesters \cup {"an1", "cl", "rd"} \cup {TaskNames[r] : r \in 1..LockObjs}

\* A sync.RWMutex: its writer, its readers and the writers that have
\* announced themselves (from then on no new reader is admitted).
NewRWMutex == [writer |-> None, readers |-> {}, waiting |-> {}]

\* An activity: the statement it is at (`at`), what it asks of which lock
\* (`req`: "lock" before Lock is entered, "wait" inside Lock, "rlock" inside
\* RLock, "held" once the call has returned) and its local variables.
AtRest ==
    [ at |-> "idle", req |-> "none", lk |-> "none", calls |-> 0, ts |-> 0,
      ref |-> 0, batch |-> << >>, cutoff |-> 0, feat |-> << >>,
      ret |-> [TotalPackets |-> 0, ActiveFlows |-> 0, AnalyzedFlows |-> 0,
               LastPacket |-> 0] ]

\* The engine running with one flow a packet short of eligible, all locks
\* free, every activity between calls.
LockInit ==
    /\ now = 0
    /\ heap = << WarmFlow >>
    /\ flows = [id \in FlowIDs |-> 1]
    /\ stats = [TotalPackets |-> MinPackets - 1, ActiveFlows |-> 1,
                AnalyzedFlows |-> 0, LastPacket |-> 0]
    /\ started = TRUE
    /\ ctxDone = FALSE
    /\ closed = FALSE
    /\ ingest = [pc |-> "select", i |-> 0, ts |-> 0]
    /\ analyzer = [a \in Analyzers |-> IdleAnalyzer]
    /\ cleanup = [pc |-> "select", at |-> 0, cutoff |-> 0]
    /\ tasks = EmptyBag
    /\ captures = MinPackets - 1
    /\ st = [e \in Engines |-> NewStatistics]
    /\ confSum = [e \in Engines |-> 0]
    /\ ml = NewMLEngine(DefaultMLConfig)
    /\ call = NoCall
    /\ mu = [l \in LockNames |-> NewRWMutex]
    /\ thr = [t \in LockActivities |-> AtRest]

lockOther == << started, ctxDone, closed, ingest, analyzer, cleanup, tasks,
                captures, ml, call >>

\* Mutant of Unlock: the lock is not released.
UnlockForgotten(m, l) == m

\* mu.Unlock()
Unlock(m, l) == [m EXCEPT ![l].writer = None]
\* mu.RUnlock() by reader t
RUnlock(m, l, t) == [m EXCEPT ![l].readers = @ \ {t}]

\* RLock admits a reader when no writer holds the lock or has announced itself.
CanRLockNow(l) == CanRLock(l) /\ mu[l].waiting = {}

\* Lock, first half: the writer announces itself.
AnnounceLock(t) ==
    /\ thr[t].req = "lock"
    /\ mu' = [mu EXCEPT ![thr[t].lk].waiting = @ \cup {t}]
    /\ thr' = [thr EXCEPT ![t].req = "wait"]
    /\ UNCHANGED << now, heap, flows, stats, st, confSum, lockOther >>

\* Lock, second half: the writer and the readers have left.
AcquireLock(t) ==
    /\ thr[t].req = "wait"
    /\ CanLock(thr[t].lk)
    /\ mu' = [mu EXCEPT ![thr[t].lk].writer = t,
                        ![thr[t].lk].waiting = @ \ {t}]
    /\ thr' = [thr EXCEPT ![t].req = "held"]
    /\ UNCHANGED << now, heap, flows, stats, st, confSum, lockOther >>

\* RLock
AcquireRLock(t) ==
    /\ thr[t].req = "rlock"
    /\ CanRLockNow(thr[t].lk)
    /\ mu' = [mu EXCEPT ![thr[t].lk].readers = @ \cup {t}]
    /\ thr' = [thr EXCEPT ![t].req = "held"]
    /\ UNCHANGED << now, heap, flows, stats, st, confSum, lockOther >>

\* The activity moves on to the statement `at`, which asks `req` of lock l.
Goto(t, at, req, l) == [thr[t] EXCEPT !.at = at, !.req = req, !.lk = l]
\* The call returns.
Return(t) == [AtRest EXCEPT !.calls = thr[t].calls]

\* addPacketToFlow is called with a packet stamped time.Now().
LockCallAdd(g) ==
    /\ thr[g].at = "idle" /\ thr[g].calls < MaxCalls
    /\ thr' = [thr EXCEPT ![g] =
                 [Goto(g, "add.lookup", "lock", "flowsMu")
                     EXCEPT !.calls = @ + 1, !.ts = now]]
    /\ UNCHANGED << now, heap, flows, stats, st, confSum, mu, lockOther >>

\* addPacketToFlow under flowsMu: the lookup and, when absent, the new Flow.
LockAddLookup(g) ==
    /\ thr[g].at = "add.lookup" /\ thr[g].req = "held"
    /\ LET id == CapturePackets[1].id
           exists == flows[id] # NoFlow
           ref == IF exists THEN flows[id] ELSE Len(heap) + 1
       IN /\ heap' = IF exists THEN heap ELSE Append(heap, NewFlow(id, now))
          /\ flows' = [flows EXCEPT ![id] = ref]
          /\ thr' = [thr EXCEPT ![g] =
                       [Goto(g, "add.append", "lock", FlowMuNames[ref])
                           EXCEPT !.ref = ref]]
    /\ UNCHANGED << now, stats, st, confSum, mu, lockOther >>

\* addPacketToFlow under flow.mu: the append, LastSeen, flow.mu.Unlock.
LockAddAppend(g) ==
    /\ thr[g].at = "add.append" /\ thr[g].req = "held"
    /\ heap' = [heap EXCEPT ![thr[g].ref] =
                  AppendPacket(@, [Timestamp |-> thr[g].ts,
                                   Size |-> CapturePackets[1].size])]
    /\ mu' = Unlock(mu, thr[g].lk)
    /\ thr' = [thr EXCEPT ![g] = Goto(g, "add.active", "lock", "stats")]
    /\ UNCHANGED << now, flows, stats, st, confSum, lockOther >>

\* addPacketToFlow under stats.mu: ActiveFlows, stats.mu.Unlock, and the
\* deferred flowsMu.Unlock on return.
LockAddActive(g) ==
    /\ thr[g].at = "add.active" /\ thr[g].req = "held"
    /\ stats' = [stats EXCEPT !.ActiveFlows =
                    Cardinality({x \in FlowIDs : flows[x] # NoFlow})]
    /\ mu' = Unlock(Unlock(mu, "stats"), "flowsMu")
    /\ thr' = [thr EXCEPT ![g] = Return(g)]
    /\ UNCHANGED << now, heap, flows, st, confSum, lockOther >>

\* performFlowAnalysis is called: flowsMu.RLock.
LockCallAnalysis(a) ==
    /\ thr[a].at = "idle" /\ thr[a].calls < MaxCalls
    /\ thr' = [thr EXCEPT ![a] =
                 [Goto(a, "pfa.select", "rlock", "flowsMu")
                     EXCEPT !.calls = @ + 1]]
    /\ UNCHANGED << now, heap, flows, stats, st, confSum, mu, lockOther >>

\* The flows a range over e.flows may select, in any order of iteration.
Batches ==
    LET sel == { flows[id] : id \in {x \in FlowIDs : flows[x] # NoFlow
                                                     /\ Eligible(Flow(x))} }
    IN { b \in [1..Cardinality(sel) -> sel] :
            \A i, j \in 1..Cardinality(sel) : b[i] = b[j] => i = j }

\* performFlowAnalysis under flowsMu.RLock: the selection, flowsMu.RUnlock;
\* then flow.mu.Lock of the first selected flow, if any.
LockSelect(a) ==
    /\ thr[a].at = "pfa.select" /\ thr[a].req = "held"
    /\ mu' = RUnlock(mu, "flowsMu", a)
    /\ \E b \in Batches :
          thr' = [thr EXCEPT ![a] =
                    IF b = << >> THEN Return(a)
                    ELSE [Goto(a, "pfa.mark", "lock", FlowMuNames[b[1]])
                             EXCEPT !.batch = b]]
    /\ UNCHANGED << now, heap, flows, stats, st, confSum, lockOther >>

\* performFlowAnalysis under flow.mu: AnalysisPending = true, Unlock; then
\* extractFeatures asks flow.mu.RLock.
LockMark(a) ==
    /\ thr[a].at = "pfa.mark" /\ thr[a].req = "held"
    /\ heap' = [heap EXCEPT ![Head(thr[a].batch)] = SetPending(@)]
    /\ mu' = Unlock(mu, thr[a].lk)
    /\ thr' = [thr EXCEPT ![a] = Goto(a, "pfa.extract", "rlock", thr[a].lk)]
    /\ UNCHANGED << now, flows, stats, st, confSum, lockOther >>

\* extractFeatures under flow.mu.RLock, its deferred RUnlock, and the go
\* statement; then the next flow of the batch.
LockExtract(a) ==
    /\ thr[a].at = "pfa.extract" /\ thr[a].req = "held"
    /\ mu' = RUnlock(mu, thr[a].lk, a)
    /\ LET ref == Head(thr[a].batch)
           rest == Tail(thr[a].batch)
       IN thr' = [thr EXCEPT
             ![TaskNames[ref]] =
                 [AtRest EXCEPT !.at = "task.analyze", !.req = "held",
                                !.ref = ref,
                                !.feat = extractFeatures(heap[ref])],
             ![a] = IF rest = << >> THEN Return(a)
                    ELSE [Goto(a, "pfa.mark", "lock", FlowMuNames[Head(rest)])
                             EXCEPT !.batch = rest]]
    /\ UNCHANGED << now, heap, flows, stats, st, confSum, lockOther >>

\* The dispatched goroutine: e.cortex.Analyze; on an error it returns, else
\* it goes for stats.mu.Lock.
LockTaskAnalyze(t) ==
    /\ thr[t].at = "task.analyze" /\ thr[t].req = "held"
    /\ IF cortexAnalyzeFails(thr[t].feat)
       THEN /\ thr' = [thr EXCEPT ![t] = [AtRest EXCEPT !.at = "done"]]
            /\ UNCHANGED << st, confSum >>
       ELSE /\ \E conf \in PipelineConfidences :
                 /\ st' = [st EXCEPT !["cortex"] =
                              updateStats(@, cortexIsBot(conf), conf)]
                 /\ confSum' = [confSum EXCEPT !["cortex"] = @ + conf]
            /\ thr' = [thr EXCEPT ![t] = Goto(t, "task.count", "lock", "stats")]
    /\ UNCHANGED << now, heap, flows, stats, mu, lockOther >>

\* The dispatched goroutine under stats.mu: AnalyzedFlows++, Unlock, end.
LockTaskCount(t) ==
    /\ thr[t].at = "task.count" /\ thr[t].req = "held"
    /\ stats' = [stats EXCEPT !.AnalyzedFlows = @ + 1]
    /\ mu' = Unlock(mu, "stats")
    /\ thr' = [thr EXCEPT ![t] = [AtRest EXCEPT !.at = "done"]]
    /\ UNCHANGED << now, heap, flows, st, confSum, lockOther >>

\* removeOldFlows is called: the cutoff is read, then flowsMu.Lock.
LockCallSweep(c) ==
    /\ thr[c].at = "idle" /\ thr[c].calls < MaxSweeps
    /\ thr' = [thr EXCEPT ![c] =
                 [Goto(c, "sweep.delete", "lock", "flowsMu")
                     EXCEPT !.calls = @ + 1, !.cutoff = Cutoff(now)]]
    /\ UNCHANGED << now, heap, flows, stats, st, confSum, mu, lockOther >>

\* removeOldFlows under flowsMu: the deletions; then stats.mu.Lock.
LockSweepDelete(c) ==
    /\ thr[c].at = "sweep.delete" /\ thr[c].req = "held"
    /\ flows' = [id \in FlowIDs |->
                    IF flows[id] # NoFlow /\ Stale(Flow(id), thr[c].cutoff)
                    THEN NoFlow ELSE flows[id]]
    /\ thr' = [thr EXCEPT ![c] = Goto(c, "sweep.active", "lock", "stats")]
    /\ UNCHANGED << now, heap, stats, st, confSum, mu, lockOther >>

\* Mutant of LockSweepActive: the sweep leaves ActiveFlows as it was.
LockSweepActiveKept(c) ==
    /\ thr[c].at = "sweep.active" /\ thr[c].req = "held"
    /\ mu' = Unlock(Unlock(mu, "stats"), "flowsMu")
    /\ thr' = [thr EXCEPT ![c] = Return(c)]
    /\ UNCHANGED << now, heap, flows, stats, st, confSum, lockOther >>

\* removeOldFlows under stats.mu: ActiveFlows, stats.mu.Unlock, and the
\* deferred flowsMu.Unlock on return.
LockSweepActive(c) ==
    /\ thr[c].at = "sweep.active" /\ thr[c].req = "held"
    /\ stats' = [stats EXCEPT !.ActiveFlows =
                    Cardinality({x \in FlowIDs : flows[x] # NoFlow})]
    /\ mu' = Unlock(Unlock(mu, "stats"), "flowsMu")
    /\ thr' = [thr EXCEPT ![c] = Return(c)]
    /\ UNCHANGED << now, heap, flows, st, confSum, lockOther >>

\* GetStatistics is called: stats.mu.RLock.
LockCallGetStatistics(r) ==
    /\ thr[r].at = "idle" /\ thr[r].calls < MaxCalls
    /\ thr' = [thr EXCEPT ![r] =
                 [Goto(r, "stats.copy", "rlock", "stats")
                     EXCEPT !.calls = @ + 1]]
    /\ UNCHANGED << now, heap, flows, stats, st, confSum, mu, lockOther >>

\* GetStatistics under stats.mu.RLock: the copy, the deferred RUnlock.
LockGetStatistics(r) ==
    /\ thr[r].at = "stats.copy" /\ thr[r].req = "held"
    /\ mu' = RUnlock(mu, "stats", r)
    /\ thr' = [thr EXCEPT ![r] = [Return(r) EXCEPT !.ret = stats]]
    /\ UNCHANGED << now, heap, flows, stats, st, confSum, lockOther >>

LockNext ==
    \/ Tick
    \/ \E t \in LockActivities : AnnounceLock(t)
    \/ \E t \in LockActivities : AcquireLock(t)
    \/ \E t \in LockActivities : AcquireRLock(t)
    \/ \E g \in LockIngesters : LockCallAdd(g)
    \/ \E g \in LockIngesters : LockAddLookup(g)
    \/ \E g \in LockIngesters : LockAddAppend(g)
    \/ \E g \in LockIngesters : LockAddActive(g)
    \/ LockCallAnalysis("an1")
    \/ LockSelect("an1")
    \/ LockMark("an1")
    \/ LockExtract("an1")
    \/ \E r \in 1..LockObjs : LockTaskAnalyze(TaskNames[r])
    \/ \E r \in 1..LockObjs : LockTaskCount(TaskNames[r])
    \/ LockCallSweep("cl")
    \/ LockSweepDelete("cl")
    \/ LockSweepActive("cl")
    \/ LockCallGetStatistics("rd")
    \/ LockGetStatistics("rd")

\* Ingestion, the analysis cycle with its goroutines, the eviction sweep and
\* GetStatistics, interleaved at every lock operation.
LockSpec == LockInit /\ [][LockNext]_vars

\* Activity t is inside Lock or RLock and the lock is not granted.
Blocked(t) ==
    \/ thr[t].req = "wait" /\ ~CanLock(thr[t].lk)
    \/ thr[t].req = "rlock" /\ ~CanRLockNow(thr[t].lk)

\* The activities t waits for: the holders of the lock and, for a reader,
\* the writers that have announced themselves.
WaitsFor(t) ==
    IF thr[t].req = "wait"
    THEN {u \in LockActivities : mu[thr[t].lk].writer = u}
            \cup mu[thr[t].lk].readers
    ELSE IF thr[t].req = "rlock"
    THEN {u \in LockActivities : mu[thr[t].lk].writer = u}
            \cup mu[thr[t].lk].waiting
    ELSE {}

\* A set of activities each waiting forever: each is blocked on an activity
\* of the set, or on one that has returned and will not release anything.
Deadlocked(S) ==
    /\ S # {}
    /\ \A t \in S :
          /\ Blocked(t)
          /\ \E u \in WaitsFor(t) : u \in S \/ thr[u].req = "none"

\* C30: addPacketToFlow, performFlowAnalysis with its goroutines,
\* removeOldFlows and GetStatistics interleave without deadlock: in no
\* reachable state is there a set of activities each waiting forever on
\* flowsMu, a flow's mu or stats.mu.
C30_NoDeadlock ==
    \A S \in SUBSET LockActivities : ~Deadlocked(S)

\* Contention on flowsMu and stats.mu at once: an ingester holds both, an
\* activity is blocked on flowsMu, a dispatched goroutine and the caller of
\* GetStatistics are blocked on stats.mu.
C30_Witness ==
    /\ \E g \in LockIngesters :
          mu["flowsMu"].writer = g /\ mu["stats"].writer = g
    /\ \E t \in LockActivities : Blocked(t) /\ thr[t].lk = "flowsMu"
    /\ \E r \in 1..LockObjs :
          Blocked(TaskNames[r]) /\ thr[TaskNames[r]].lk = "stats"
    /\ Blocked("rd")

\* ------------------------------------------- analyses of one flow ID
\* The running engine after MinPackets capture ticks and one analysis cycle:
\* the flow has been selected, marked and dispatched, and the goroutine's
\* Analyze call has not returned yet.
DispatchedFlow ==
    [ NewFlow("f1", 0) EXCEPT
        !.Packets = [k \in 1..MinPackets |->
                        [Timestamp |-> 0, Size |-> CapturePackets[1].size]],
        !.AnalysisPending = TRUE ]

RecreateInit ==
    /\ now = 0
    /\ heap = << DispatchedFlow >>
    /\ flows = [id \in FlowIDs |-> 1]
    /\ stats = [TotalPackets |-> MinPackets, ActiveFlows |-> 1,
                AnalyzedFlows |-> 0, LastPacket |-> 0]
    /\ started = TRUE
    /\ ctxDone = FALSE
    /\ closed = FALSE
    /\ ingest = [pc |-> "select", i |-> 0, ts |-> 0]
    /\ analyzer = [a \in Analyzers |->
                     IF a = "an1" THEN IdleAnalyzer
                     ELSE [IdleAnalyzer EXCEPT !.pc = "off"]]
    /\ cleanup = [pc |-> "select", at |-> 0, cutoff |-> 0]
    /\ tasks = SetToBag({NewTask(1, extractFeatures(DispatchedFlow))})
    /\ captures = MinPackets
    /\ st = [e \in Engines |-> NewStatistics]
    /\ mu = [e \in Engines |-> [writer |-> None, readers |-> {}]]
    /\ thr = [t \in Callers |-> IdleThread]
    /\ confSum = [e \in Engines |-> 0]
    /\ ml = NewMLEngine(DefaultMLConfig)
    /\ call = NoCall

\* The pipeline from there on: ingestion, the analysis cycle with its
\* goroutines, the eviction sweep.
RecreateNext ==
    \/ Tick
    \/ IngestTickUpTo(MaxRecaptures)
    \/ MakePacket
    \/ AddPacketToFlow
    \/ CountPackets
    \/ \E a \in Analyzers : BeginCycle(a)
    \/ \E a \in Analyzers : ScanOne(a)
    \/ \E a \in Analyzers : Mark(a)
    \/ \E a \in Analyzers : Dispatch(a)
    \/ \E t \in BagToSet(tasks) : TaskAnalyze(t)
    \/ \E t \in BagToSet(tasks) : TaskCount(t)
    \/ CleanupTick
    \/ RemoveOldFlows

RecreateSpec == RecreateInit /\ [][RecreateNext]_vars

\* The cortex.Analyze calls under way for flow ID id: the dispatched
\* goroutines of flow objects with that ID whose Analyze has not returned.
AnalysesRunning(id) ==
    LET ts == { t \in BagToSet(tasks) :
                  t.pc = "analyze" /\ heap[t.ref].ID = id }
        refs == { t.ref : t \in ts }
    IN IF \E t \in ts : CopiesIn(t, tasks) > 1 THEN 2
       ELSE Cardinality(refs)

\* C31: at every moment at most one analysis is in flight for a flow ID,
\* also when a flow is evicted while its analysis runs and a flow with the
\* same ID is recreated, becomes eligible and is dispatched.
C31_OneAnalysisPerFlowID ==
    \A id \in FlowIDs : AnalysesRunning(id) <= 1

\* ------------------------------------------------------- flow duration
\* C32: for every flow in the table StartTime <= LastSeen, so the duration
\* extractFeatures writes to slot 21 is never negative (the packets of the
\* capture loop are stamped in order and never later than their ingest).
C32_StartNotAfterLastSeen ==
    \A id \in Present :
        /\ Flow(id).StartTime <= Flow(id).LastSeen
        /\ Slot(extractFeatures(Flow(id)), 21).num >= 0

\* ---------------------------------------------------------- active flows
\* C33: whenever neither addPacketToFlow nor removeOldFlows is executing,
\* stats.ActiveFlows equals the number of flows in the table.
C33_ActiveFlowsIsTableSize ==
    (\A t \in LockIngesters \cup {"cl"} : thr[t].at = "idle")
        => stats.ActiveFlows = Cardinality(Present)

\* Between calls, after a sweep has emptied the table and an ingest has put
\* a new flow under the evicted ID.
C33_Witness ==
    /\ \A t \in LockIngesters \cup {"cl"} : thr[t].at = "idle"
    /\ thr["cl"].calls = 1
    /\ Len(heap) = 2 /\ flows["f1"] = 2
    /\ stats.ActiveFlows = 1

\* ------------------------------------------------- training an ensemble
\* C34: when trainEnsemble returns an error, the trained flags of both
\* sub-models are what they were before the call.
C34_EnsembleAllOrNothing ==
    (ml.config.ModelType = "ensemble" /\ ml.pc = "idle" /\ ml.err)
        => (ml.nnTrained = ml.was.nn /\ ml.svmTrained = ml.was.svm)

\* --------------------------------------------- prediction during training
\* C35: MLEngine.Predict and MLEngine.TrainOnFakeData exclude each other:
\* no Predict call reads the weights or the trained flags while a
\* TrainOnFakeData is part-way through updating them.
C35_PredictExcludesTraining ==
    call.fn = "ml.Predict" => call.during = "idle"

\* --------------------------------------------------- the ML cortex engine
\* The model types ValidateMLConfig accepts.
validModels == {"neural_network", "random_forest", "knn", "svm", "ensemble"}

\* ValidateMLConfig returns nil.
ValidateMLConfig(cfg) ==
    /\ cfg.ModelType \in validModels
    /\ cfg.DetectionThreshold >= 0 /\ cfg.DetectionThreshold <= Scale
    /\ RatLess(RatZero, cfg.LearningRate)
    /\ cfg.BatchSize > 0
    /\ cfg.FeatureSize > 0
    /\ cfg.FakeDataSize > 0
    /\ cfg.TrainingEpochs > 0
    /\ cfg.MaxConcurrency > 0

\* Configurations handed to UpdateConfig: the default with another model
\* type, another feature size or a threshold out of range.
NewConfigs ==
    { [DefaultMLConfig EXCEPT !.ModelType = m, !.FeatureSize = n,
                              !.DetectionThreshold = th,
                              !.GenerateFakeData = FALSE] :
        m \in {"svm", "ensemble", "knn", "decision_tree"},
        n \in {FeatureSize, FeatureSize - 1, 0},
        th \in {MLDetectionThreshold, Scale + 50} }

\* NewMLCortexEngine over a configuration that does not train at once.
CortexMLInit ==
    /\ EngineInit
    /\ ml \in { NewMLEngine([DefaultMLConfig EXCEPT
                                !.ModelType = m, !.GenerateFakeData = FALSE]) :
                  m \in ModelTypes }
    /\ call = NoPrediction

\* MLCortexEngine.UpdateConfig under mu.Lock: a configuration that does not
\* validate is rejected; a valid one replaces e.config.  The ML engine and
\* its models are not touched.
UpdateConfig ==
    /\ ml.pc = "idle" /\ call.fn = "none"
    /\ \E cfg \in NewConfigs :
          ml' = IF ValidateMLConfig(cfg) THEN [ml EXCEPT !.owner = cfg] ELSE ml
    /\ UNCHANGED << argusVars, st, mu, thr, confSum, call >>

\* MLCortexEngine.HealthCheck under mu.RLock: e.mlEngine.Predict on a
\* vector of e.config.FeatureSize slots, all 0.5; the error is returned.
HealthCheck ==
    /\ ml.pc = "idle" /\ call.fn = "none"
    /\ \E out \in NNOutcomes :
          LET x == Pattern(ml.owner.FeatureSize, 0, Rat(1, 2), Rat(1, 2))
              r == PredictConfidence(ml, x, out)
              isBot == mlIsBotAt(r.conf, ml.config.DetectionThreshold)
          IN /\ call' = Returned("mlc.HealthCheck", x, out, r, isBot)
             /\ IF r.status = "ok"
                THEN /\ st' = Record(st, "ml", isBot, r.conf)
                     /\ confSum' = [confSum EXCEPT !["ml"] = @ + Finite(r.conf)]
                ELSE UNCHANGED << st, confSum >>
    /\ UNCHANGED << argusVars, mu, thr, ml >>

CortexMLNext ==
    \/ TrainOnFakeData
    \/ trainNeuralNetwork
    \/ trainSVM
    \/ UpdateConfig
    \/ HealthCheck
    \/ MLCortexEngineAnalyze

\* An MLCortexEngine retrained and reconfigured at any moments, then one
\* Analyze or HealthCheck.
CortexMLSpec == CortexMLInit /\ [][CortexMLNext]_vars

\* C36: HealthCheck leaves the prediction statistics unchanged: the ML
\* engine's counters and average, and those of the MLCortexEngine, are the
\* same before and after.
C36_HealthCheckKeepsStatistics ==
    [][(call.fn = "none" /\ call'.fn = "mlc.HealthCheck")
          => (st'["ml"] = st["ml"] /\ st'["mlc"] = st["mlc"])]_vars

\* C37: after any sequence of UpdateConfig calls the feature size Analyze
\* validates against is the size the models were built with, so a vector
\* that passes the validation never reaches a model of another input size.
C37_ValidatedSizeIsModelSize ==
    /\ ml.owner.FeatureSize = Len(ml.weights)
    /\ (call.fn = "mlc.Analyze" /\ Len(call.features) # Len(ml.weights))
          => call.ret.status = "error"

\* ------------------------------------------------ validated configurations
\* Configurations a caller may hold: the default with any model type a
\* configuration file may name, and sizes and thresholds in and out of range.
ConfigSamples ==
    { [DefaultMLConfig EXCEPT !.ModelType = m, !.FeatureSize = n,
                              !.DetectionThreshold = th, !.FakeDataSize = k,
                              !.GenerateFakeData = FALSE] :
        m \in validModels \cup {"decision_tree"},
        n \in {FeatureSize, 0},
        th \in {MLDetectionThreshold, Scale + 50},
        k \in {1000, 0} }

\* initializeModels: the switch on the model type.
initializeModels(cfg) ==
    IF cfg.ModelType \in ModelTypes THEN "ok" ELSE "unsupported"

\* A configuration is chosen; nothing has been called on it.  No engine
\* exists yet (ml.pc is "nil").
ConfigInit ==
    /\ EngineInit
    /\ ml = [NewMLEngine(DefaultMLConfig) EXCEPT !.pc = "nil"]
    /\ call \in { [fn |-> "config", cfg |-> c, valid |-> "unknown",
                   init |-> "none", predict |-> "none"] : c \in ConfigSamples }

\* config.ValidateMLConfig(cfg)
CallValidateMLConfig ==
    /\ call.valid = "unknown"
    /\ call' = [call EXCEPT !.valid =
                   IF ValidateMLConfig(call.cfg) THEN "nil" ELSE "error"]
    /\ UNCHANGED << argusVars, st, mu, thr, confSum, ml >>

\* ml.NewMLEngine(cfg): initializeModels; on its error no engine is returned.
CallNewMLEngine ==
    /\ call.init = "none"
    /\ call' = [call EXCEPT !.init = initializeModels(call.cfg)]
    /\ ml' = IF initializeModels(call.cfg) = "ok"
             THEN NewMLEngine(call.cfg) ELSE ml
    /\ UNCHANGED << argusVars, st, mu, thr, confSum >>

\* Predict on the engine built: the switch on the model type, isBot,
\* updateStats.
CallPredict ==
    /\ call.init = "ok" /\ call.predict = "none" /\ ml.pc = "idle"
    /\ \E x \in FeatureSamples, out \in NNOutcomes :
          LET r == PredictConfidence(ml, x, out)
              isBot == mlIsBotAt(r.conf, ml.config.DetectionThreshold)
          IN /\ call' = [call EXCEPT !.predict =
                           IF ml.config.ModelType \in ModelTypes
                           THEN r.status ELSE "unsupported"]
             /\ IF r.status = "ok"
                THEN /\ st' = Record(st, "ml", isBot, r.conf)
                     /\ confSum' = [confSum EXCEPT !["ml"] = @ + Finite(r.conf)]
                ELSE UNCHANGED << st, confSum >>
    /\ UNCHANGED << argusVars, mu, thr, ml >>

ConfigNext == CallValidateMLConfig \/ CallNewMLEngine \/ CallPredict

\* A configuration is validated and an engine is built from it and asked
\* for a prediction, in any order the code allows.
ConfigSpec == ConfigInit /\ [][ConfigNext]_vars

\* C38: every configuration ValidateMLConfig accepts names a model type the
\* engine can initialize and predict with: neither initializeModels nor
\* Predict fails with an unsupported-model-type error.
C38_ValidatedTypeIsSupported ==
    call.valid = "nil"
        => (call.init # "unsupported" /\ call.predict # "unsupported")

====
